---- MODULE Spec2Model ----
(***************************************************************************)
(* Client reconciliation (ClientValidationModal) and financial aggregation *)
(* (FinancialStudio) of the Jalsaat event-management application.          *)
(*                                                                         *)
(* Strings that the code inspects character by character (client names)    *)
(* are sequences of one-character strings; strings that are only compared  *)
(* or tested for emptiness (contacts) are plain strings.  JavaScript       *)
(* numbers are exact rationals or integers here: every quotient the code   *)
(* forms is kept as a fraction [n, d] and compared by cross-multiplying.   *)
(***************************************************************************)
EXTENDS Integers, Sequences, FiniteSets, TLC

(***************************************************************************)
(* Bounds of the model.                                                    *)
(***************************************************************************)
\* longest events array handed to the ClientValidationModal
MaxEvents == 2
\* longest clients array handed to the ClientValidationModal at mount
MaxClients == 2
\* longest cost_tracker of an event in the per-event aggregation runs
MaxItems == 2
\* longest events array in the per-event aggregation runs
MaxFinEvents == 2
\* longest events array in the commission runs
MaxCommEvents == 2
\* events and clients of the longer wizard sessions
MaxSessionEvents == 3
MaxSessionClients == 1
\* longest name handed to calculateMatchScore on its own
MaxNameLen == 3
\* longest events and services arrays in the sorting runs
MaxSortEvents == 2
MaxSortServices == 2
\* most setTimeout callbacks of the PIN field waiting at once
MaxPinTimers == 2
\* most runs of handleSaveNewEvent
MaxSaves == 2
\* most files held at once, and most FileReaders running at once
MaxFiles == 3
MaxPendingReads == 2
\* most rows of a quote, largest quantity typed, latest Date.now()
MaxQuoteRows == 2
MaxQty == 3
MaxClock == 2
\* most events on the calendar, last month shown (from 0)
MaxCalendarEvents == 2
MaxMonth == 2

(***************************************************************************)
(* Character-level string functions of String.prototype.                  *)
(***************************************************************************)
UpperChars == {"A", "B", "X"}
LowerLetters == {"a", "b", "c", "x", "y"}
Digits == {"0", "1"}
WhiteChars == {" "}

\* toLowerCase on one character
LowerChar(ch) ==
  CASE ch = "A" -> "a"
    [] ch = "B" -> "b"
    [] ch = "X" -> "x"
    [] OTHER -> ch

\* String.prototype.toLowerCase
ToLowerCase(s) == [i \in 1..Len(s) |-> LowerChar(s[i])]

\* String.prototype.trim: drop the leading and the trailing whitespace run
RECURSIVE TrimStart(_)
TrimStart(s) ==
  IF s # <<>> /\ Head(s) \in WhiteChars THEN TrimStart(Tail(s)) ELSE s

RECURSIVE TrimEnd(_)
TrimEnd(s) ==
  IF s # <<>> /\ s[Len(s)] \in WhiteChars
  THEN TrimEnd(SubSeq(s, 1, Len(s) - 1))
  ELSE s

Trim(s) == TrimEnd(TrimStart(s))

\* s.replace(/[^a-z0-9]/g, ''): keep only lowercase letters and digits
StripNonAlnum(s) == SelectSeq(s, LAMBDA ch : ch \in LowerLetters \cup Digits)

\* String.prototype.includes: t occurs in s as a contiguous run
Includes(s, t) ==
  \E i \in 1..(Len(s) - Len(t) + 1) : SubSeq(s, i, i + Len(t) - 1) = t

\* s.split(/\s+/): cut at every maximal whitespace run; a leading or trailing
\* run leaves an empty string at that end, and "" splits to [""]
RECURSIVE SplitWs(_)
SplitWs(s) ==
  IF \A i \in 1..Len(s) : s[i] \notin WhiteChars
  THEN <<s>>
  ELSE LET i == CHOOSE k \in 1..Len(s) :
                  /\ s[k] \in WhiteChars
                  /\ \A j \in 1..(k - 1) : s[j] \notin WhiteChars
           rest == TrimStart(SubSeq(s, i, Len(s)))
       IN <<SubSeq(s, 1, i - 1)>> \o SplitWs(rest)

\* new Set(s.toLowerCase().split(/\s+/))
TokenSet(s) == LET t == SplitWs(ToLowerCase(s)) IN {t[i] : i \in 1..Len(t)}

(***************************************************************************)
(* Scores: exact fractions n/d with d > 0.                                 *)
(***************************************************************************)
Frac(n, d) == [n |-> n, d |-> d]
FracGT(a, b) == a.n * b.d > b.n * a.d
FracEq(a, b) == a.n * b.d = b.n * a.d
MaxOf(a, b) == IF a >= b THEN a ELSE b

\* mutant of calculateMatchScore: without the s1 === s2 test
calculateMatchScore_NoExact(target, candidate) ==
  LET s1 == StripNonAlnum(ToLowerCase(target))
      s2 == StripNonAlnum(ToLowerCase(candidate))
      tokens1 == TokenSet(target)
      tokens2 == TokenSet(candidate)
      intersection == tokens1 \cap tokens2
      m == MaxOf(Cardinality(tokens1), Cardinality(tokens2))
  IN IF Includes(s1, s2) \/ Includes(s2, s1) THEN Frac(8, 10)
     ELSE IF Cardinality(intersection) > 0
          THEN Frac(5 * m + 4 * Cardinality(intersection), 10 * m)
          ELSE Frac(0, 10)

\* mutant of calculateMatchScore: only s1.includes(s2) is tested
calculateMatchScore_OneWay(target, candidate) ==
  LET s1 == StripNonAlnum(ToLowerCase(target))
      s2 == StripNonAlnum(ToLowerCase(candidate))
      tokens1 == TokenSet(target)
      tokens2 == TokenSet(candidate)
      intersection == tokens1 \cap tokens2
      m == MaxOf(Cardinality(tokens1), Cardinality(tokens2))
  IN IF s1 = s2 THEN Frac(10, 10)
     ELSE IF Includes(s1, s2) THEN Frac(8, 10)
     ELSE IF Cardinality(intersection) > 0
          THEN Frac(5 * m + 4 * Cardinality(intersection), 10 * m)
          ELSE Frac(0, 10)

\* calculateMatchScore(target, candidate)
calculateMatchScore(target, candidate) ==
  LET s1 == StripNonAlnum(ToLowerCase(target))
      s2 == StripNonAlnum(ToLowerCase(candidate))
      tokens1 == TokenSet(target)
      tokens2 == TokenSet(candidate)
      intersection == tokens1 \cap tokens2
      m == MaxOf(Cardinality(tokens1), Cardinality(tokens2))
  IN IF s1 = s2 THEN Frac(10, 10)
     ELSE IF Includes(s1, s2) \/ Includes(s2, s1) THEN Frac(8, 10)
     ELSE IF Cardinality(intersection) > 0
          \* 0.5 + (|intersection| / max) * 0.4
          THEN Frac(5 * m + 4 * Cardinality(intersection), 10 * m)
          ELSE Frac(0, 10)

\* findBestMatch(name, clientList): a left-to-right scan that replaces the best
\* so far only on a strictly greater score, starting from no client and score 0
NoClient == [id |-> 0, companyName |-> <<>>, primaryContactName |-> ""]

\* mutant of BestMatchScan: score >= bestScore, so the last maximum wins
RECURSIVE BestMatchScan_LastWins(_, _, _, _)
BestMatchScan_LastWins(name, clientList, i, best) ==
  IF i > Len(clientList) THEN best
  ELSE LET score == calculateMatchScore(name, clientList[i].companyName)
       IN BestMatchScan_LastWins(name, clientList, i + 1,
            IF ~FracGT(best.score, score)
            THEN [client |-> clientList[i], score |-> score]
            ELSE best)

RECURSIVE BestMatchScan(_, _, _, _)
BestMatchScan(name, clientList, i, best) ==
  IF i > Len(clientList) THEN best
  ELSE LET score == calculateMatchScore(name, clientList[i].companyName)
       IN BestMatchScan(name, clientList, i + 1,
            IF FracGT(score, best.score)
            THEN [client |-> clientList[i], score |-> score]
            ELSE best)

findBestMatch(name, clientList) ==
  BestMatchScan(name, clientList, 1, [client |-> NoClient, score |-> Frac(0, 10)])

\* mutant of SameNormalizedName: the names are lowercased but not trimmed
SameNormalizedName_NoTrim(a, b) == ToLowerCase(a) = ToLowerCase(b)

\* c.companyName.trim().toLowerCase() === event.clientName.trim().toLowerCase()
SameNormalizedName(a, b) == ToLowerCase(Trim(a)) = ToLowerCase(Trim(b))

\* clients.find(c => ...) !== undefined in the reconciliation effect
HasExactMatch(event, clientList) ==
  \E i \in 1..Len(clientList) :
     SameNormalizedName(clientList[i].companyName, event.clientName)

\* mutant of FindUnresolvedFrom: each item is put in front of the list
RECURSIVE FindUnresolvedFrom_Unshift(_, _, _, _)
FindUnresolvedFrom_Unshift(evs, clientList, ignored, i) ==
  IF i > Len(evs) THEN <<>>
  ELSE LET event == evs[i]
           best == findBestMatch(event.clientName, clientList)
           rest == FindUnresolvedFrom_Unshift(evs, clientList, ignored, i + 1)
       IN IF ~HasExactMatch(event, clientList) /\ event.eventId \notin ignored
          THEN rest \o <<[event |-> event,
                          suggestedMatch |-> best.client,
                          matchScore |-> best.score]>>
          ELSE rest

\* One pass of the reconciliation effect over events[i..]: the unlinked list
RECURSIVE FindUnresolvedFrom(_, _, _, _)
FindUnresolvedFrom(evs, clientList, ignored, i) ==
  IF i > Len(evs) THEN <<>>
  ELSE LET event == evs[i]
           best == findBestMatch(event.clientName, clientList)
           rest == FindUnresolvedFrom(evs, clientList, ignored, i + 1)
       IN IF ~HasExactMatch(event, clientList) /\ event.eventId \notin ignored
          THEN <<[event |-> event,
                  suggestedMatch |-> best.client,
                  matchScore |-> best.score]>> \o rest
          ELSE rest

\* mutant of FindUnresolved: the ignored set is not consulted
FindUnresolved_KeepsIgnored(evs, clientList, ignored) ==
  FindUnresolvedFrom(evs, clientList, {}, 1)

FindUnresolved(evs, clientList, ignored) ==
  FindUnresolvedFrom(evs, clientList, ignored, 1)

(***************************************************************************)
(* The render of the item view sorts the clients array it was given, in    *)
(* place: clients.sort((a,b) => a.companyName.localeCompare(b.companyName))*)
(***************************************************************************)
\* Collation rank of a character: whitespace, punctuation, digits, letters;
\* case is a tie-break only (lowercase first)
CollRank(ch) ==
  CASE ch = " " -> 0
    [] ch = "-" -> 1
    [] ch = "0" -> 2
    [] ch = "1" -> 3
    [] LowerChar(ch) = "a" -> 4
    [] LowerChar(ch) = "b" -> 5
    [] LowerChar(ch) = "c" -> 6
    [] LowerChar(ch) = "x" -> 7
    [] OTHER -> 8

RECURSIVE RankCompare(_, _, _)
RankCompare(a, b, i) ==
  IF i > Len(a) /\ i > Len(b) THEN 0
  ELSE IF i > Len(a) THEN -1
  ELSE IF i > Len(b) THEN 1
  ELSE IF CollRank(a[i]) < CollRank(b[i]) THEN -1
  ELSE IF CollRank(a[i]) > CollRank(b[i]) THEN 1
  ELSE RankCompare(a, b, i + 1)

RECURSIVE CaseCompare(_, _, _)
CaseCompare(a, b, i) ==
  IF i > Len(a) THEN 0
  ELSE IF a[i] = b[i] THEN CaseCompare(a, b, i + 1)
  ELSE IF a[i] \in UpperChars THEN 1 ELSE -1

\* a.localeCompare(b)
LocaleCompare(a, b) ==
  IF RankCompare(a, b, 1) # 0 THEN RankCompare(a, b, 1) ELSE CaseCompare(a, b, 1)

\* Array.prototype.sort with that comparator: stable
RECURSIVE InsertSorted(_, _)
InsertSorted(sorted, c) ==
  IF sorted = <<>> THEN <<c>>
  ELSE IF LocaleCompare(sorted[Len(sorted)].companyName, c.companyName) <= 0
       THEN Append(sorted, c)
       ELSE Append(InsertSorted(SubSeq(sorted, 1, Len(sorted) - 1), c),
                   sorted[Len(sorted)])

RECURSIVE SortByCompanyName(_)
SortByCompanyName(clientList) ==
  IF clientList = <<>> THEN <<>>
  ELSE InsertSorted(SortByCompanyName(SubSeq(clientList, 1, Len(clientList) - 1)),
                    clientList[Len(clientList)])

(***************************************************************************)
(* What the ClientValidationModal renders.                                 *)
(***************************************************************************)
\* currentItem = unlinkedEvents[currentIndex] is defined
HasCurrentItem(unlinked, index) == index + 1 <= Len(unlinked)

\* mutant of SuggestionOffered: the two arms of the conditional are swapped
SuggestionOffered_Swapped(item) ==
  ~(item.suggestedMatch.id # 0 /\ FracGT(item.matchScore, Frac(4, 10)))

\* currentItem.suggestedMatch && currentItem.matchScore > 0.4
SuggestionOffered(item) ==
  item.suggestedMatch.id # 0 /\ FracGT(item.matchScore, Frac(4, 10))

\* "complete": the Database Clean screen; "blank": the component returns null;
\* "suggest": the item with the suggested-match card; "manual": the item with
\* "No close matches found."
RenderView(unlinked, index, complete) ==
  IF complete \/ Len(unlinked) = 0 THEN "complete"
  ELSE IF ~HasCurrentItem(unlinked, index) THEN "blank"
  ELSE IF SuggestionOffered(unlinked[index + 1]) THEN "suggest"
  ELSE "manual"

\* The clients array after one render: the item view sorts it in place
RenderClients(clientList, unlinked, index, complete) ==
  IF RenderView(unlinked, index, complete) \in {"suggest", "manual"}
  THEN SortByCompanyName(clientList)
  ELSE clientList

(***************************************************************************)
(* The state store behind onUpdateEvent and onAddClient.                   *)
(***************************************************************************)
\* updateEvent(id, partialFields): the patch is merged into the event
StoreUpdateEvent(evs, eventId, clientName, clientContact) ==
  [i \in 1..Len(evs) |->
     IF evs[i].eventId = eventId
     THEN [evs[i] EXCEPT !.clientName = clientName, !.clientContact = clientContact]
     ELSE evs[i]]

RECURSIVE MaxClientId(_)
MaxClientId(clientList) ==
  IF clientList = <<>> THEN 0
  ELSE MaxOf(Head(clientList).id, MaxClientId(Tail(clientList)))

\* addClient(fields): a new record with a fresh id is appended
StoreAddClient(clientList, companyName, primaryContactName) ==
  Append(clientList, [id |-> MaxClientId(clientList) + 1,
                      companyName |-> companyName,
                      primaryContactName |-> primaryContactName])

(***************************************************************************)
(* State.                                                                  *)
(***************************************************************************)
VARIABLES
  \* the store's collections, as passed to the ClientValidationModal
  events, clients,
  \* ClientValidationModal: whether it is mounted, and its useState cells
  phase, unlinkedEvents, currentIndex, isComplete, ignoredIds,
  \* what the modal last rendered (RenderView)
  view,
  \* history: the clients array as the last reconciliation effect read it
  scannedClients,
  \* history: the ids the first reconciliation pass listed, and the ids of
  \* the events the item view has shown since the modal opened
  openUnresolved, presented,
  \* FinancialStudio: its props and whether it has rendered
  finEvents, users, finPhase,
  \* FinancialStudio: the values of its useMemo cells
  eventFinancials, overallFinancials, commissionData,
  \* FinancialStudio: the services prop, the activeTab and sortConfig state
  \* cells, and the sortedEvents and sortedServices useMemo cells
  services, activeTab, sortConfig, sortedEvents, sortedServices,
  \* calculateMatchScore on its own: the two names, whether it has been
  \* applied, and what it returned for (target, candidate), (candidate,
  \* target) and (target, target)
  scoreTarget, scoreCandidate, scorePhase, matchScores,
  \* LandingPage: its users and settings.adminPin props, its useState cells,
  \* the setTimeout callbacks of handlePinChange not yet run, and the user id
  \* onLogin was called with ("none": not called)
  landingUsers, adminPin, selectedUserId, showPinModal, pinInput, pinError,
  pendingPinTimers, loggedInAs,
  \* EventList's "Create New Event" form: its useState cells, the
  \* isAddEventModalOpen prop, the number of onAddClient and onAddEvent calls
  \* made, the number of handleSaveNewEvent runs and how the last one ended
  \* ("none": no run yet; "saved"; or the validation error it reported)
  newEvent, clientMode, newClientDetails, isAddEventModalOpen, addClientCalls,
  addEventCalls, saveRuns, lastSave,
  \* SmartItemImporter: the files and previews state (by file name) and the
  \* FileReaders started and not yet ended
  files, previews, pendingReads,
  \* QuoteBuilder: the items state, the selected product, and the value of
  \* Date.now()
  quoteItems, selectedProductId, quoteClock,
  \* CalendarView: the events prop, the minutes the browser's clock is ahead
  \* of UTC, the month of new Date(), the month of currentDate (from 0, in
  \* 2026), and the events shown in each day cell
  calendarEvents, tzOffset, todayMonth, currentMonth, dayCells

reconVars == <<events, clients, phase, unlinkedEvents, currentIndex, isComplete,
               ignoredIds, view, scannedClients, openUnresolved, presented>>
finVars == <<finEvents, users, finPhase, eventFinancials, overallFinancials,
             commissionData, services, activeTab, sortConfig, sortedEvents,
             sortedServices>>
scoreVars == <<scoreTarget, scoreCandidate, scorePhase, matchScores>>
loginVars == <<landingUsers, adminPin, selectedUserId, showPinModal, pinInput,
               pinError, pendingPinTimers, loggedInAs>>
\* the components a run of the wizard, the studio or the scorer leaves alone
formVars == <<newEvent, clientMode, newClientDetails, isAddEventModalOpen,
              addClientCalls, addEventCalls, saveRuns, lastSave>>
importerVars == <<files, previews, pendingReads>>
quoteVars == <<quoteItems, selectedProductId, quoteClock>>
calendarVars == <<calendarEvents, tzOffset, todayMonth, currentMonth, dayCells>>
restVars == <<loginVars, formVars, importerVars, quoteVars, calendarVars>>
vars == <<reconVars, finVars, scoreVars, restVars>>

\* Sequences over S of length at most n
SeqsUpTo(S, n) == UNION {[1..k -> S] : k \in 0..n}

(***************************************************************************)
(* Inputs of the reconciliation runs.                                      *)
(***************************************************************************)
\* Event fields the modal reads: clientName, clientContact; clientId is the
\* optional back-reference (0: absent), which the modal never reads
EventPool ==
  { [clientName |-> <<>>,              clientContact |-> "TBD", clientId |-> 0],
    [clientName |-> <<" ", "A", "b">>, clientContact |-> "Sam", clientId |-> 9],
    [clientName |-> <<"a", " ", "b">>, clientContact |-> "",    clientId |-> 0],
    [clientName |-> <<"X", "y">>,      clientContact |-> "Sam", clientId |-> 0] }

ClientPool ==
  { [companyName |-> <<"a", "b">>,           primaryContactName |-> "Ann"],
    [companyName |-> <<"b", " ", "c">>,      primaryContactName |-> "Cat"],
    [companyName |-> <<"a", "b", " ", "c">>, primaryContactName |-> "Dan"] }

\* The arrays the store holds: ids are unique
EventsFrom(templates) ==
  [i \in 1..Len(templates) |->
     [eventId |-> i,
      clientName |-> templates[i].clientName,
      clientContact |-> templates[i].clientContact,
      clientId |-> templates[i].clientId]]

ClientsFrom(templates) ==
  [i \in 1..Len(templates) |->
     [id |-> i,
      companyName |-> templates[i].companyName,
      primaryContactName |-> templates[i].primaryContactName]]

\* FinancialStudio is not mounted in the reconciliation runs
\* useState('overview') and useState({ key: 'profit', direction: 'desc' })
InitialTab == "overview"
InitialSortConfig == [key |-> "profit", direction |-> "desc"]

FinIdle ==
  /\ finEvents = <<>>
  /\ users = <<>>
  /\ finPhase = "idle"
  /\ eventFinancials = <<>>
  /\ overallFinancials = <<>>
  /\ commissionData = <<>>
  /\ services = <<>>
  /\ activeTab = InitialTab
  /\ sortConfig = InitialSortConfig
  /\ sortedEvents = <<>>
  /\ sortedServices = <<>>

\* calculateMatchScore is not exercised on its own
ScoreIdle ==
  /\ scoreTarget = <<>>
  /\ scoreCandidate = <<>>
  /\ scorePhase = "idle"
  /\ matchScores = [forward |-> Frac(0, 10), backward |-> Frac(0, 10), self |-> Frac(0, 10)]

\* LandingPage is not mounted
LoginIdle ==
  /\ landingUsers = <<>>
  /\ adminPin = <<>>
  /\ selectedUserId = ""
  /\ showPinModal = FALSE
  /\ pinInput = <<>>
  /\ pinError = FALSE
  /\ pendingPinTimers = 0
  /\ loggedInAs = "none"

\* EventList is not mounted
FormIdle ==
  /\ newEvent = [name |-> "", date |-> "", location |-> <<>>, clientId |-> ""]
  /\ clientMode = "existing"
  /\ newClientDetails = [companyName |-> <<>>, contact |-> <<>>, email |-> <<>>]
  /\ isAddEventModalOpen = FALSE
  /\ addClientCalls = 0
  /\ addEventCalls = 0
  /\ saveRuns = 0
  /\ lastSave = "none"

\* SmartItemImporter is not mounted
ImporterIdle == files = <<>> /\ previews = <<>> /\ pendingReads = <<>>

\* QuoteBuilder is not mounted
QuoteIdle == quoteItems = <<>> /\ selectedProductId = 0 /\ quoteClock = 0

\* CalendarView is not mounted
CalendarIdle ==
  /\ calendarEvents = <<>>
  /\ tzOffset = 0
  /\ todayMonth = 0
  /\ currentMonth = 0
  /\ dayCells = <<>>

\* Every component but the named one is unmounted
RestIdleExcept(component) ==
  /\ IF component = "login" THEN TRUE ELSE LoginIdle
  /\ IF component = "form" THEN TRUE ELSE FormIdle
  /\ IF component = "importer" THEN TRUE ELSE ImporterIdle
  /\ IF component = "quote" THEN TRUE ELSE QuoteIdle
  /\ IF component = "calendar" THEN TRUE ELSE CalendarIdle

RestIdle == RestIdleExcept("none")

\* The modal's state cells before it is mounted (their useState initial values)
ModalUnmounted ==
  /\ phase = "closed"
  /\ unlinkedEvents = <<>>
  /\ currentIndex = 0
  /\ isComplete = FALSE
  /\ ignoredIds = {}
  /\ view = "closed"
  /\ scannedClients = <<>>
  /\ openUnresolved = {}
  /\ presented = {}

ReconInit ==
  /\ \E t \in SeqsUpTo(EventPool, MaxEvents) : events = EventsFrom(t)
  /\ \E t \in SeqsUpTo(ClientPool, MaxClients) : clients = ClientsFrom(t)
  /\ ModalUnmounted
  /\ FinIdle
  /\ ScoreIdle
  /\ RestIdle

(***************************************************************************)
(* ClientValidationModal: handlers.  Each action is the handler, the       *)
(* store's update, the render that follows, the reconciliation effect when *)
(* events, clients or ignoredIds changed, and the render after the effect. *)
(***************************************************************************)
\* The state after the handler's updates evs, cls, ign, idx, comp: render,
\* effect (when deps changed), render
Commit(evs, cls, ign, idx, comp, depsChanged) ==
  \E cls1 \in {RenderClients(cls, unlinkedEvents, idx, comp)} :
  \E unl \in {IF depsChanged THEN FindUnresolved(evs, cls1, ign) ELSE unlinkedEvents} :
  \* if (unlinked.length === 0 && events.length > 0) setIsComplete(true)
  \E comp1 \in {IF depsChanged /\ Len(unl) = 0 /\ Len(evs) > 0 THEN TRUE ELSE comp} :
     /\ events' = evs
     /\ ignoredIds' = ign
     /\ currentIndex' = idx
     /\ unlinkedEvents' = unl
     /\ isComplete' = comp1
     /\ scannedClients' = IF depsChanged THEN cls1 ELSE scannedClients
     /\ clients' = RenderClients(cls1, unl, idx, comp1)
     /\ view' = RenderView(unl, idx, comp1)
     /\ openUnresolved' = IF phase = "closed"
                          THEN {unl[k].event.eventId : k \in 1..Len(unl)}
                          ELSE openUnresolved
     /\ presented' = IF RenderView(unl, idx, comp1) \in {"suggest", "manual"}
                     THEN presented \cup {unl[idx + 1].event.eventId}
                     ELSE presented

\* next(): the index and completion flag it leaves
NextIndex == IF currentIndex < Len(unlinkedEvents) - 1 THEN currentIndex + 1 ELSE currentIndex
NextComplete == IF currentIndex < Len(unlinkedEvents) - 1 THEN isComplete ELSE TRUE

\* The parent opens the modal: first render, effect, render
Open ==
  /\ phase = "closed"
  /\ phase' = "open"
  /\ Commit(events, clients, {}, 0, FALSE, TRUE)
  /\ UNCHANGED <<finVars, scoreVars, restVars>>

\* mutant of LinkContact: the client's contact is adopted whatever the event had
LinkContact_Always(contact, existingClient) == existingClient.primaryContactName

\* The clientContact of handleLink's patch: "auto-update contact if it was generic"
LinkContact(contact, existingClient) ==
  IF (contact = "TBD" \/ contact = "") /\ existingClient.id # 0
  THEN existingClient.primaryContactName
  ELSE contact

\* handleLink(clientName)
handleLink(clientName) ==
  /\ HasCurrentItem(unlinkedEvents, currentIndex)
  /\ LET item == unlinkedEvents[currentIndex + 1]
         found == {i \in 1..Len(clients) : clients[i].companyName = clientName}
         \* clients.find(c => c.companyName === clientName)
         existingClient == IF found = {} THEN NoClient
                           ELSE clients[CHOOSE i \in found : \A j \in found : i <= j]
         contact == LinkContact(item.event.clientContact, existingClient)
     IN Commit(StoreUpdateEvent(events, item.event.eventId, clientName, contact),
               clients, ignoredIds, NextIndex, NextComplete, TRUE)

\* "Confirm Match" on the suggested-match card
ConfirmMatch ==
  /\ phase = "open"
  /\ view = "suggest"
  /\ handleLink(unlinkedEvents[currentIndex + 1].suggestedMatch.companyName)
  /\ UNCHANGED <<phase, finVars, scoreVars, restVars>>

\* the "Select a client..." list: onChange = if (e.target.value) handleLink(...)
SelectClient ==
  /\ phase = "open"
  /\ view \in {"suggest", "manual"}
  /\ \E i \in 1..Len(clients) :
        /\ clients[i].companyName # <<>>
        /\ handleLink(clients[i].companyName)
  /\ UNCHANGED <<phase, finVars, scoreVars, restVars>>

\* mutant of NewClientFields: the company name is stored in its stripped form
NewClientFields_Stripped(event) ==
  [companyName |-> StripNonAlnum(ToLowerCase(event.clientName)),
   primaryContactName |-> IF event.clientContact = "" THEN "Primary Contact"
                          ELSE event.clientContact]

\* The fields handleCreate passes to onAddClient that the modal reads back
NewClientFields(event) ==
  [companyName |-> event.clientName,
   \* currentItem.event.clientContact || 'Primary Contact'
   primaryContactName |-> IF event.clientContact = "" THEN "Primary Contact"
                          ELSE event.clientContact]

\* handleCreate
handleCreate ==
  /\ phase = "open"
  /\ view \in {"suggest", "manual"}
  /\ HasCurrentItem(unlinkedEvents, currentIndex)
  /\ LET fields == NewClientFields(unlinkedEvents[currentIndex + 1].event)
     IN Commit(events,
               StoreAddClient(clients, fields.companyName, fields.primaryContactName),
               ignoredIds, NextIndex, NextComplete, TRUE)
  /\ UNCHANGED <<phase, finVars, scoreVars, restVars>>

\* mutant of IgnoredAfter: the id is not recorded
IgnoredAfter_Dropped(ignored, eventId) == ignored

\* setIgnoredIds(prev => new Set(prev).add(eventId))
IgnoredAfter(ignored, eventId) == ignored \cup {eventId}

\* handleIgnore
handleIgnore ==
  /\ phase = "open"
  /\ view \in {"suggest", "manual"}
  /\ LET has == HasCurrentItem(unlinkedEvents, currentIndex)
         ign == IF has
                THEN IgnoredAfter(ignoredIds, unlinkedEvents[currentIndex + 1].event.eventId)
                ELSE ignoredIds
     IN Commit(events, clients, ign, NextIndex, NextComplete, has)
  /\ UNCHANGED <<phase, finVars, scoreVars, restVars>>

\* handleRefresh ("Re-scan" on the completion screen)
handleRefresh ==
  /\ phase = "open"
  /\ view = "complete"
  /\ Commit(events, clients, {}, 0, FALSE, TRUE)
  /\ UNCHANGED <<phase, finVars, scoreVars, restVars>>

ReconNext ==
  \/ Open
  \/ ConfirmMatch
  \/ SelectClient
  \/ handleCreate
  \/ handleIgnore
  \/ handleRefresh

SpecRecon == ReconInit /\ [][ReconNext]_vars

\* Longer wizard sessions: more events, so that an action can follow another
\* before the completion screen, over fewer clients
SessionInit ==
  /\ \E t \in SeqsUpTo(EventPool, MaxSessionEvents) : events = EventsFrom(t)
  /\ \E t \in SeqsUpTo(ClientPool, MaxSessionClients) : clients = ClientsFrom(t)
  /\ ModalUnmounted
  /\ FinIdle
  /\ ScoreIdle
  /\ RestIdle

SpecSession == SessionInit /\ [][ReconNext]_vars

(***************************************************************************)
(* FinancialStudio: JavaScript values.  A numeric field is a number, or    *)
(* undefined (missing or null), or NaN once arithmetic has met undefined.  *)
(***************************************************************************)
Num(v) == [k |-> "num", v |-> v]
Undefined == [k |-> "undef", v |-> 0]
NaN == [k |-> "nan", v |-> 0]

\* mutant of OrZero: the "|| 0" default is left out
OrZero_Missing(x) == x

\* x || 0: undefined, null, NaN and 0 all give 0
OrZero(x) == IF x.k = "num" /\ x.v # 0 THEN x ELSE Num(0)

\* mutant of Nullish: x || y, which also replaces a rate of 0
Nullish_Or(x, y) == IF x.k = "num" /\ x.v # 0 THEN x ELSE y

\* x ?? y: only undefined and null are replaced
Nullish(x, y) == IF x.k = "undef" THEN y ELSE x

\* a * b, a + b, a - b on numbers; NaN when an operand is undefined or NaN
JSMul(a, b) == IF a.k = "num" /\ b.k = "num" THEN Num(a.v * b.v) ELSE NaN
JSAdd(a, b) == IF a.k = "num" /\ b.k = "num" THEN Num(a.v + b.v) ELSE NaN
JSSub(a, b) == IF a.k = "num" /\ b.k = "num" THEN Num(a.v - b.v) ELSE NaN
\* a > 0: false for NaN and undefined
JSPositive(a) == a.k = "num" /\ a.v > 0

\* Sum of two fractions
FracAdd(a, b) ==
  IF a.d = b.d THEN Frac(a.n + b.n, a.d) ELSE Frac(a.n * b.d + b.n * a.d, a.d * b.d)

\* An array-valued field: the array, or undefined
Arr(items) == [k |-> "arr", items |-> items]
NoArr == [k |-> "undef", items |-> <<>>]
\* (event.cost_tracker || [])
OrEmpty(a) == IF a.k = "arr" THEN a.items ELSE <<>>

(***************************************************************************)
(* eventFinancials, overallFinancials.                                     *)
(***************************************************************************)
\* mutant of LineRevenue: the quantity is left out of the product
LineRevenue_NoQuantity(item) == OrZero(item.client_price_sar)

\* (item.client_price_sar || 0) * (item.quantity || 0)
LineRevenue(item) == JSMul(OrZero(item.client_price_sar), OrZero(item.quantity))
\* (item.unit_cost_sar || 0) * (item.quantity || 0)
LineCost(item) == JSMul(OrZero(item.unit_cost_sar), OrZero(item.quantity))

\* items.reduce((sum, item) => sum + ..., 0), from index i with accumulator sum
RECURSIVE ReduceRevenue(_, _, _)
ReduceRevenue(items, i, sum) ==
  IF i > Len(items) THEN sum
  ELSE ReduceRevenue(items, i + 1, JSAdd(sum, LineRevenue(items[i])))

RECURSIVE ReduceCost(_, _, _)
ReduceCost(items, i, sum) ==
  IF i > Len(items) THEN sum
  ELSE ReduceCost(items, i + 1, JSAdd(sum, LineCost(items[i])))

\* revenue > 0 ? (profit / revenue) * 100 : 0
Margin(revenue, profit) ==
  IF JSPositive(revenue) /\ profit.k = "num"
  THEN Frac(profit.v * 100, revenue.v)
  ELSE Frac(0, 1)

\* { ...event, revenue, cost, profit, margin }
WithFinancials(event) ==
  LET revenue == ReduceRevenue(OrEmpty(event.cost_tracker), 1, Num(0))
      cost == ReduceCost(OrEmpty(event.cost_tracker), 1, Num(0))
      profit == JSSub(revenue, cost)
  IN [eventId |-> event.eventId,
      name |-> event.name,
      salespersonId |-> event.salespersonId,
      commissionRate |-> event.commissionRate,
      commissionPaid |-> event.commissionPaid,
      cost_tracker |-> event.cost_tracker,
      revenue |-> revenue,
      cost |-> cost,
      profit |-> profit,
      margin |-> Margin(revenue, profit)]

\* events.map(event => ...)
EventFinancials(evs) == [i \in 1..Len(evs) |-> WithFinancials(evs[i])]

\* eventFinancials.reduce(...) into totalRevenue, totalCost, totalProfit, and
\* overallMargin = totalRevenue > 0 ? (totalProfit / totalRevenue) * 100 : 0
RECURSIVE ReduceOverall(_, _, _)
ReduceOverall(fins, i, acc) ==
  IF i > Len(fins) THEN acc
  ELSE ReduceOverall(fins, i + 1,
         [totalRevenue |-> JSAdd(acc.totalRevenue, fins[i].revenue),
          totalCost |-> JSAdd(acc.totalCost, fins[i].cost),
          totalProfit |-> JSAdd(acc.totalProfit, fins[i].profit)])

OverallFinancials(fins) ==
  LET acc == ReduceOverall(fins, 1, [totalRevenue |-> Num(0), totalCost |-> Num(0),
                                     totalProfit |-> Num(0)])
  IN [totalRevenue |-> acc.totalRevenue,
      totalCost |-> acc.totalCost,
      totalProfit |-> acc.totalProfit,
      overallMargin |-> Margin(acc.totalRevenue, acc.totalProfit)]

(***************************************************************************)
(* commissionData: the per-salesperson summary and the detailed ledger.    *)
(***************************************************************************)
\* mutant of Truthy: no event counts as paid
Truthy_Never(b) == FALSE

\* event.commissionPaid as a condition
Truthy(b) == b = "true"

\* (event.commissionRate ?? user.commissionRate ?? 0), in percent
CommissionRate(event, user) ==
  Nullish(Nullish(event.commissionRate, user.commissionRate), Num(0))

\* event.profit * (rate / 100)
CommissionAmount(event, user) ==
  Frac(event.profit.v * CommissionRate(event, user).v, 100)

\* eventFinancials.filter(e => e.salespersonId === user.userId)
UserEvents(fins, user) == SelectSeq(fins, LAMBDA e : e.salespersonId = user.userId)

\* users.filter(u => u.role === 'Sales')
SalesUsers(us) == SelectSeq(us, LAMBDA u : u.role = "Sales")

\* userEvents.forEach(...) of the summary: totalCommission and paidCommission
RECURSIVE AccumulateCommission(_, _, _, _)
AccumulateCommission(userEvents, user, i, acc) ==
  IF i > Len(userEvents) THEN acc
  ELSE LET event == userEvents[i]
       IN AccumulateCommission(userEvents, user, i + 1,
            IF JSPositive(event.profit)
            THEN [total |-> FracAdd(acc.total, CommissionAmount(event, user)),
                  paid |-> IF Truthy(event.commissionPaid)
                           THEN FracAdd(acc.paid, CommissionAmount(event, user))
                           ELSE acc.paid]
            ELSE acc)

\* mutant of EventCount: only the events that earn a commission are counted
EventCount_Profitable(userEvents) ==
  Len(SelectSeq(userEvents, LAMBDA e : JSPositive(e.profit)))

\* eventCount: userEvents.length
EventCount(userEvents) == Len(userEvents)

SummaryRow(fins, user) ==
  LET userEvents == UserEvents(fins, user)
      acc == AccumulateCommission(userEvents, user, 1,
                                  [total |-> Frac(0, 1), paid |-> Frac(0, 1)])
  IN [user |-> user,
      totalCommission |-> acc.total,
      paidCommission |-> acc.paid,
      pendingCommission |-> FracAdd(acc.total, Frac(0 - acc.paid.n, acc.paid.d)),
      eventCount |-> EventCount(userEvents)]

\* salesUsers.map(user => ...)
CommissionSummary(fins, us) ==
  LET sales == SalesUsers(us) IN [i \in 1..Len(sales) |-> SummaryRow(fins, sales[i])]

\* mutant of LedgerKeeps: the "commissionAmount > 0" test is left out
LedgerKeeps_Any(amount) == TRUE

\* if (commissionAmount > 0)
LedgerKeeps(amount) == amount.n > 0

\* the inner userEvents.forEach(...) of the ledger
RECURSIVE LedgerOfUser(_, _, _)
LedgerOfUser(userEvents, user, i) ==
  IF i > Len(userEvents) THEN <<>>
  ELSE LET event == userEvents[i]
           rest == LedgerOfUser(userEvents, user, i + 1)
       IN IF JSPositive(event.profit) /\ LedgerKeeps(CommissionAmount(event, user))
          THEN <<[user |-> user,
                  event |-> event,
                  commissionAmount |-> CommissionAmount(event, user),
                  commissionRate |-> CommissionRate(event, user),
                  isPaid |-> event.commissionPaid]>> \o rest
          ELSE rest

\* salesUsers.forEach(user => ...) of the ledger
RECURSIVE DetailedLedgerFrom(_, _, _)
DetailedLedgerFrom(fins, sales, i) ==
  IF i > Len(sales) THEN <<>>
  ELSE LedgerOfUser(UserEvents(fins, sales[i]), sales[i], 1)
         \o DetailedLedgerFrom(fins, sales, i + 1)

CommissionData(fins, us) ==
  [summary |-> CommissionSummary(fins, us),
   detailedLedger |-> DetailedLedgerFrom(fins, SalesUsers(us), 1)]

(***************************************************************************)
(* FinancialStudio: the sorted lists and requestSort.                      *)
(***************************************************************************)
Str(s) == [k |-> "str", v |-> s]

\* UTF-16 code unit of a character
CodeUnit(ch) ==
  CASE ch = " " -> 32
    [] ch = "-" -> 45
    [] ch = "0" -> 48
    [] ch = "1" -> 49
    [] ch = "A" -> 65
    [] ch = "B" -> 66
    [] ch = "X" -> 88
    [] ch = "a" -> 97
    [] ch = "b" -> 98
    [] ch = "c" -> 99
    [] ch = "x" -> 120
    [] ch = "y" -> 121

\* a < b on two strings: the first differing code unit decides, and a proper
\* prefix is smaller
RECURSIVE StrLessFrom(_, _, _)
StrLessFrom(a, b, i) ==
  IF i > Len(a) THEN i <= Len(b)
  ELSE IF i > Len(b) THEN FALSE
  ELSE IF a[i] = b[i] THEN StrLessFrom(a, b, i + 1)
  ELSE CodeUnit(a[i]) < CodeUnit(b[i])

\* ToNumber of an operand of <: undefined is NaN, an empty or blank string is
\* 0, a string with a letter in it is NaN (no name of the model is numeric)
JSToNumber(x) ==
  IF x.k = "num" THEN x
  ELSE IF x.k = "str" /\ Trim(x.v) = <<>> THEN Num(0)
  ELSE NaN

\* x < y: two strings are compared by code units, anything else as numbers
JSLess(x, y) ==
  IF x.k = "str" /\ y.k = "str" THEN StrLessFrom(x.v, y.v, 1)
  ELSE /\ JSToNumber(x).k = "num"
       /\ JSToNumber(y).k = "num"
       /\ JSToNumber(x).v < JSToNumber(y).v

\* a[key] of an event with financials, of a service
EventField(e, key) ==
  CASE key = "name" -> Str(e.name)
    [] key = "profit" -> e.profit
    [] key = "revenue" -> e.revenue
    [] OTHER -> Undefined

ServiceField(s, key) ==
  CASE key = "name" -> Str(s.name)
    [] key = "basePrice" -> s.basePrice
    [] OTHER -> Undefined

\* valA = a[key] || 0; if (typeof valA === 'string') valA = valA.toLowerCase()
ServiceSortValue(x) ==
  IF x.k = "str"
  THEN IF x.v = <<>> THEN Num(0) ELSE Str(ToLowerCase(x.v))
  ELSE OrZero(x)

\* The comparator's result for the two values under the direction
CompareBy(x, y, direction) ==
  IF JSLess(x, y) THEN (IF direction = "asc" THEN -1 ELSE 1)
  ELSE IF JSLess(y, x) THEN (IF direction = "asc" THEN 1 ELSE -1)
  ELSE 0

\* the comparator of sortedEvents ("events") and of sortedServices ("services")
CompareItems(list, a, b, config) ==
  IF list = "events"
  THEN CompareBy(EventField(a, config.key), EventField(b, config.key),
                 config.direction)
  ELSE CompareBy(ServiceSortValue(ServiceField(a, config.key)),
                 ServiceSortValue(ServiceField(b, config.key)),
                 config.direction)

\* Array.prototype.sort with that comparator: a stable sort
RECURSIVE InsertItem(_, _, _, _)
InsertItem(list, config, sorted, x) ==
  IF sorted = <<>> THEN <<x>>
  ELSE IF CompareItems(list, sorted[Len(sorted)], x, config) <= 0
       THEN Append(sorted, x)
       ELSE Append(InsertItem(list, config, SubSeq(sorted, 1, Len(sorted) - 1), x),
                   sorted[Len(sorted)])

RECURSIVE SortItems(_, _, _)
SortItems(list, config, items) ==
  IF items = <<>> THEN <<>>
  ELSE InsertItem(list, config,
                  SortItems(list, config, SubSeq(items, 1, Len(items) - 1)),
                  items[Len(items)])

\* the sortedEvents and sortedServices useMemo cells (sortConfig is never null)
SortedEvents(fins, config, tab) ==
  IF tab = "event deep dive" THEN SortItems("events", config, fins) ELSE fins

SortedServices(servs, config, tab) ==
  IF tab = "pricing & margin analysis" THEN SortItems("services", config, servs)
  ELSE servs

\* mutant of NextDirection: the key is not compared
NextDirection_AnyKey(config, key) ==
  IF config.direction = "asc" THEN "desc" ELSE "asc"

\* requestSort: 'asc' unless the key is the current key and it is ascending
NextDirection(config, key) ==
  IF config.key = key /\ config.direction = "asc" THEN "desc" ELSE "asc"

(***************************************************************************)
(* FinancialStudio: inputs and the render that fills the useMemo cells.    *)
(***************************************************************************)
\* cost_tracker entries: the worked example of the specification, a negative
\* quantity, a missing price
LinePool ==
  { [client_price_sar |-> Num(100), unit_cost_sar |-> Num(60), quantity |-> Num(2)],
    [client_price_sar |-> Num(100), unit_cost_sar |-> Num(60), quantity |-> Num(0 - 1)],
    [client_price_sar |-> Undefined, unit_cost_sar |-> Num(60), quantity |-> Num(2)] }

TrackerPool == {NoArr} \cup {Arr(t) : t \in SeqsUpTo(LinePool, MaxItems)}

\* cost_tracker values with missing fields: no array, each field missing in
\* turn, all fields missing beside a complete entry
MissingTrackerPool ==
  { NoArr,
    Arr(<<>>),
    Arr(<<[client_price_sar |-> Num(100), unit_cost_sar |-> Num(60), quantity |-> Num(2)]>>),
    Arr(<<[client_price_sar |-> Undefined, unit_cost_sar |-> Num(60), quantity |-> Num(2)]>>),
    Arr(<<[client_price_sar |-> Num(50), unit_cost_sar |-> Undefined, quantity |-> Num(2)]>>),
    Arr(<<[client_price_sar |-> Num(50), unit_cost_sar |-> Num(60), quantity |-> Undefined]>>),
    Arr(<<[client_price_sar |-> Undefined, unit_cost_sar |-> Undefined, quantity |-> Undefined],
          [client_price_sar |-> Num(100), unit_cost_sar |-> Num(60), quantity |-> Num(2)]>>) }

\* In the aggregation runs only the cost_tracker varies
FinEventsFrom(trackers) ==
  [i \in 1..Len(trackers) |->
     [eventId |-> i,
      name |-> <<"a">>,
      salespersonId |-> "u1",
      commissionRate |-> Undefined,
      commissionPaid |-> "undefined",
      cost_tracker |-> trackers[i]]]

\* In the commission runs the events have a profit of 80, 0 or -120
CommTrackerPool ==
  { Arr(<<[client_price_sar |-> Num(100), unit_cost_sar |-> Num(60), quantity |-> Num(2)]>>),
    Arr(<<>>),
    Arr(<<[client_price_sar |-> Undefined, unit_cost_sar |-> Num(60), quantity |-> Num(2)]>>) }

CommEventPool ==
  [salespersonId : {"u1", "u2"},
   commissionRate : {Undefined, Num(0), Num(20)},
   commissionPaid : {"true", "undefined"},
   cost_tracker : CommTrackerPool]

CommEventsFrom(templates) ==
  [i \in 1..Len(templates) |->
     [eventId |-> i,
      name |-> <<"a">>,
      salespersonId |-> templates[i].salespersonId,
      commissionRate |-> templates[i].commissionRate,
      commissionPaid |-> templates[i].commissionPaid,
      cost_tracker |-> templates[i].cost_tracker]]

UserListPool ==
  { <<[userId |-> "u1", role |-> "Sales", commissionRate |-> Num(10)]>>,
    <<[userId |-> "u1", role |-> "Sales", commissionRate |-> Num(10)],
      [userId |-> "u2", role |-> "Sales", commissionRate |-> Undefined]>>,
    <<[userId |-> "u2", role |-> "Sales", commissionRate |-> Num(10)],
      [userId |-> "u1", role |-> "Sales", commissionRate |-> Num(10)]>>,
    <<[userId |-> "u1", role |-> "Admin", commissionRate |-> Num(10)],
      [userId |-> "u2", role |-> "Sales", commissionRate |-> Num(10)]>>,
    <<[userId |-> "u1", role |-> "Operations", commissionRate |-> Undefined]>> }

\* The ClientValidationModal is not mounted in the FinancialStudio runs
ReconIdle ==
  /\ events = <<>>
  /\ clients = <<>>
  /\ ModalUnmounted

FinUnrendered ==
  /\ finPhase = "props"
  /\ eventFinancials = <<>>
  /\ overallFinancials = <<>>
  /\ commissionData = <<>>
  /\ activeTab = InitialTab
  /\ sortConfig = InitialSortConfig
  /\ sortedEvents = <<>>
  /\ sortedServices = <<>>

FinInit ==
  /\ \E t \in SeqsUpTo(TrackerPool, MaxFinEvents) : finEvents = FinEventsFrom(t)
  /\ users = <<[userId |-> "u1", role |-> "Sales", commissionRate |-> Num(10)]>>
  /\ services = <<>>
  /\ FinUnrendered
  /\ ReconIdle
  /\ ScoreIdle
  /\ RestIdle

MissingInit ==
  /\ \E t \in SeqsUpTo(MissingTrackerPool, MaxFinEvents) : finEvents = FinEventsFrom(t)
  /\ users = <<[userId |-> "u1", role |-> "Sales", commissionRate |-> Num(10)]>>
  /\ services = <<>>
  /\ FinUnrendered
  /\ ReconIdle
  /\ ScoreIdle
  /\ RestIdle

CommInit ==
  /\ \E t \in SeqsUpTo(CommEventPool, MaxCommEvents) : finEvents = CommEventsFrom(t)
  /\ users \in UserListPool
  /\ services = <<>>
  /\ FinUnrendered
  /\ ReconIdle
  /\ ScoreIdle
  /\ RestIdle

\* FinancialStudio renders: eventFinancials, sortedEvents, sortedServices,
\* overallFinancials, commissionData
RenderFinancialStudio ==
  /\ finPhase = "props"
  /\ finPhase' = "rendered"
  /\ \E fins \in {EventFinancials(finEvents)} :
       /\ eventFinancials' = fins
       /\ sortedEvents' = SortedEvents(fins, sortConfig, activeTab)
       /\ overallFinancials' = OverallFinancials(fins)
       /\ commissionData' = CommissionData(fins, users)
  /\ sortedServices' = SortedServices(services, sortConfig, activeTab)
  /\ UNCHANGED <<finEvents, users, services, activeTab, sortConfig, reconVars,
                 scoreVars, restVars>>

SpecFin == FinInit /\ [][RenderFinancialStudio]_vars
SpecMissing == MissingInit /\ [][RenderFinancialStudio]_vars
SpecComm == CommInit /\ [][RenderFinancialStudio]_vars

\* Commission runs with negative rates as well: events with a profit of 80 or
\* -120 and a rate that is absent, 0, 20 or -10 percent
SignedRateEventPool ==
  [salespersonId : {"u1", "u2"},
   commissionRate : {Undefined, Num(0), Num(20), Num(0 - 10)},
   commissionPaid : {"true", "undefined"},
   cost_tracker : { Arr(<<[client_price_sar |-> Num(100), unit_cost_sar |-> Num(60),
                           quantity |-> Num(2)]>>),
                    Arr(<<[client_price_sar |-> Undefined, unit_cost_sar |-> Num(60),
                           quantity |-> Num(2)]>>) }]

SignedRateInit ==
  /\ \E t \in SeqsUpTo(SignedRateEventPool, MaxCommEvents) : finEvents = CommEventsFrom(t)
  /\ users \in { <<[userId |-> "u1", role |-> "Sales", commissionRate |-> Num(10)],
                   [userId |-> "u2", role |-> "Sales", commissionRate |-> Undefined]>>,
                 <<[userId |-> "u2", role |-> "Sales", commissionRate |-> Num(0 - 5)],
                   [userId |-> "u1", role |-> "Admin", commissionRate |-> Num(10)]>> }
  /\ services = <<>>
  /\ FinUnrendered
  /\ ReconIdle
  /\ ScoreIdle
  /\ RestIdle

SpecSignedRates == SignedRateInit /\ [][RenderFinancialStudio]_vars

(***************************************************************************)
(* calculateMatchScore over all pairs of short names.                      *)
(***************************************************************************)
\* A lowercase letter, an uppercase letter, white space and punctuation
NameChars == {"a", "B", " ", "-"}

ScoreInit ==
  /\ scoreTarget \in SeqsUpTo(NameChars, MaxNameLen)
  /\ scoreCandidate \in SeqsUpTo(NameChars, MaxNameLen)
  /\ scorePhase = "names"
  /\ matchScores = [forward |-> Frac(0, 10), backward |-> Frac(0, 10), self |-> Frac(0, 10)]
  /\ ReconIdle
  /\ FinIdle
  /\ RestIdle

\* calculateMatchScore is applied to the two names, both ways round, and to the
\* target with itself
ScoreNames ==
  /\ scorePhase = "names"
  /\ scorePhase' = "scored"
  /\ matchScores' = [forward |-> calculateMatchScore(scoreTarget, scoreCandidate),
                     backward |-> calculateMatchScore(scoreCandidate, scoreTarget),
                     self |-> calculateMatchScore(scoreTarget, scoreTarget)]
  /\ UNCHANGED <<scoreTarget, scoreCandidate, reconVars, finVars, restVars>>

SpecScore == ScoreInit /\ [][ScoreNames]_vars

(***************************************************************************)
(* FinancialStudio: the sortable lists.                                    *)
(***************************************************************************)
\* the tabs the two sorted lists test for, and the tab shown first
Tabs == {"overview", "event deep dive", "pricing & margin analysis"}

\* keys handed to requestSort: a text column, a numeric column of the events,
\* a numeric column of the services
SortKeys == {"name", "profit", "basePrice"}

\* events named b, B and a with a profit of 80, 0 or -120
SortEventPool ==
  { [name |-> <<"b">>, cost_tracker |->
       Arr(<<[client_price_sar |-> Num(100), unit_cost_sar |-> Num(60), quantity |-> Num(2)]>>)],
    [name |-> <<"B">>, cost_tracker |-> Arr(<<>>)],
    [name |-> <<"a">>, cost_tracker |->
       Arr(<<[client_price_sar |-> Undefined, unit_cost_sar |-> Num(60), quantity |-> Num(2)]>>)],
    [name |-> <<"B">>, cost_tracker |->
       Arr(<<[client_price_sar |-> Num(100), unit_cost_sar |-> Num(60), quantity |-> Num(2)]>>)] }

ServicePool ==
  { [name |-> <<"b">>, basePrice |-> Num(5)],
    [name |-> <<"B">>, basePrice |-> Undefined],
    [name |-> <<"a">>, basePrice |-> Num(9)] }

SortEventsFrom(templates) ==
  [i \in 1..Len(templates) |->
     [eventId |-> i,
      name |-> templates[i].name,
      salespersonId |-> "u1",
      commissionRate |-> Undefined,
      commissionPaid |-> "undefined",
      cost_tracker |-> templates[i].cost_tracker]]

ServicesFrom(templates) ==
  [i \in 1..Len(templates) |->
     [id |-> i, name |-> templates[i].name, basePrice |-> templates[i].basePrice]]

SortInit ==
  /\ \E t \in SeqsUpTo(SortEventPool, MaxSortEvents) : finEvents = SortEventsFrom(t)
  /\ \E t \in SeqsUpTo(ServicePool, MaxSortServices) : services = ServicesFrom(t)
  /\ users = <<[userId |-> "u1", role |-> "Sales", commissionRate |-> Num(10)]>>
  /\ FinUnrendered
  /\ ReconIdle
  /\ ScoreIdle
  /\ RestIdle

\* requestSort(key) and the render that follows: the cells that depend on
\* sortConfig are recomputed
requestSort(key) ==
  /\ finPhase = "rendered"
  /\ \E config \in {[key |-> key, direction |-> NextDirection(sortConfig, key)]} :
       /\ sortConfig' = config
       /\ sortedEvents' = SortedEvents(eventFinancials, config, activeTab)
       /\ sortedServices' = SortedServices(services, config, activeTab)
  /\ UNCHANGED <<finEvents, users, finPhase, eventFinancials, overallFinancials,
                 commissionData, services, activeTab, reconVars, scoreVars,
                 restVars>>

\* a column header is clicked
RequestSort == \E key \in SortKeys : requestSort(key)

\* setActiveTab(tab) and the render that follows
SelectTab ==
  /\ finPhase = "rendered"
  /\ \E tab \in Tabs :
       /\ activeTab' = tab
       /\ sortedEvents' = SortedEvents(eventFinancials, sortConfig, tab)
       /\ sortedServices' = SortedServices(services, sortConfig, tab)
  /\ UNCHANGED <<finEvents, users, finPhase, eventFinancials, overallFinancials,
                 commissionData, services, sortConfig, reconVars, scoreVars,
                 restVars>>

SortNext ==
  \/ RenderFinancialStudio
  \/ RequestSort
  \/ SelectTab

SpecSort == SortInit /\ [][SortNext]_vars

(***************************************************************************)
(* LandingPage: profile selection and the Admin PIN.                       *)
(***************************************************************************)
\* e.target.value.replace(/[^0-9]/g, '').slice(0, 4)
DigitsOnly(s) ==
  SelectSeq(s, LAMBDA ch : ch \in {"0", "1", "2", "3", "4", "5", "6", "7", "8", "9"})
Slice4(s) == IF Len(s) > 4 THEN SubSeq(s, 1, 4) ELSE s

\* mutant of EffectivePin: no default when the setting is empty
EffectivePin_NoDefault(pin) == pin

\* settings.adminPin || '1234'
EffectivePin(pin) == IF pin = <<>> THEN <<"1", "2", "3", "4">> ELSE pin

\* users.find(u => u.userId === selectedUserId)?.role === 'Admin'
IsAdminId(us, id) ==
  \E i \in 1..Len(us) :
     /\ us[i].userId = id
     /\ \A j \in 1..(i - 1) : us[j].userId # id
     /\ us[i].role = "Admin"

\* What the PIN field can report as its value
TypedPool ==
  { <<>>, <<"1">>, <<"1", "2">>, <<"1", "2", "3", "4">>, <<"1", "2", "3", "5">>,
    <<"2", "2", "2", "2">>, <<"1", "x", "2", "3", "4", "9">>,
    <<"1", "2", "3", "5", "4">> }

\* settings.adminPin: not set, four digits, two digits
AdminPinPool == { <<>>, <<"2", "2", "2", "2">>, <<"1", "2">> }

LandingUserPool ==
  { <<[userId |-> "u1", role |-> "Admin"], [userId |-> "u2", role |-> "Sales"]>>,
    <<[userId |-> "u2", role |-> "Sales"], [userId |-> "u1", role |-> "Admin"]>>,
    <<[userId |-> "u2", role |-> "Sales"]>> }

LoginInit ==
  /\ landingUsers \in LandingUserPool
  /\ adminPin \in AdminPinPool
  \* defaultUserId
  /\ selectedUserId \in {"u1", "u2"}
  /\ showPinModal = FALSE
  /\ pinInput = <<>>
  /\ pinError = FALSE
  /\ pendingPinTimers = 0
  /\ loggedInAs = "none"
  /\ ReconIdle
  /\ FinIdle
  /\ ScoreIdle
  /\ RestIdleExcept("login")

OthersUnchangedByLogin ==
  UNCHANGED <<landingUsers, adminPin, reconVars, finVars, scoreVars, formVars, importerVars,
              quoteVars, calendarVars>>

\* the profile select: setSelectedUserId(e.target.value)
SelectProfile ==
  /\ loggedInAs = "none"
  /\ \E i \in 1..Len(landingUsers) : selectedUserId' = landingUsers[i].userId
  /\ UNCHANGED <<showPinModal, pinInput, pinError, pendingPinTimers, loggedInAs>>
  /\ OthersUnchangedByLogin

\* handleLoginClick
handleLoginClick ==
  /\ loggedInAs = "none"
  /\ IF IsAdminId(landingUsers, selectedUserId)
     THEN /\ showPinModal' = TRUE
          /\ pinInput' = <<>>
          /\ pinError' = FALSE
          /\ UNCHANGED loggedInAs
     ELSE /\ loggedInAs' = selectedUserId
          /\ UNCHANGED <<showPinModal, pinInput, pinError>>
  /\ UNCHANGED <<selectedUserId, pendingPinTimers>>
  /\ OthersUnchangedByLogin

\* handlePinVerify: the Enter key in the PIN field, or "Verify Credentials"
handlePinVerify ==
  /\ loggedInAs = "none"
  /\ showPinModal
  /\ IF pinInput = EffectivePin(adminPin)
     THEN /\ loggedInAs' = selectedUserId
          /\ showPinModal' = FALSE
          /\ UNCHANGED <<pinInput, pinError>>
     ELSE /\ pinError' = TRUE
          /\ pinInput' = <<>>
          /\ UNCHANGED <<loggedInAs, showPinModal>>
  /\ UNCHANGED <<selectedUserId, pendingPinTimers>>
  /\ OthersUnchangedByLogin

\* handlePinChange(e) for the value the field reports
handlePinChange(value) ==
  /\ loggedInAs = "none"
  /\ showPinModal
  /\ \E val \in {Slice4(DigitsOnly(value))} :
       /\ pinInput' = val
       /\ pinError' = FALSE
       /\ IF Len(val) = 4 /\ val = EffectivePin(adminPin)
          THEN /\ loggedInAs' = selectedUserId
               /\ showPinModal' = FALSE
               /\ UNCHANGED pendingPinTimers
          ELSE IF Len(val) = 4
          \* setTimeout(() => { setPinError(...); setPinInput('') }, 300)
          THEN /\ pendingPinTimers < MaxPinTimers
               /\ pendingPinTimers' = pendingPinTimers + 1
               /\ UNCHANGED <<loggedInAs, showPinModal>>
          ELSE UNCHANGED <<loggedInAs, showPinModal, pendingPinTimers>>
  /\ UNCHANGED selectedUserId
  /\ OthersUnchangedByLogin

PinChange == \E value \in TypedPool : handlePinChange(value)

\* the modal's onClose
ClosePinModal ==
  /\ loggedInAs = "none"
  /\ showPinModal
  /\ showPinModal' = FALSE
  /\ UNCHANGED <<selectedUserId, pinInput, pinError, pendingPinTimers, loggedInAs>>
  /\ OthersUnchangedByLogin

\* a setTimeout callback of handlePinChange runs; after onLogin the page may
\* still be mounted (isExiting) or already gone, and then its setters do nothing
PinTimerFires ==
  /\ pendingPinTimers > 0
  /\ pendingPinTimers' = pendingPinTimers - 1
  /\ \/ pinError' = TRUE /\ pinInput' = <<>>
     \/ loggedInAs # "none" /\ UNCHANGED <<pinError, pinInput>>
  /\ UNCHANGED <<selectedUserId, showPinModal, loggedInAs>>
  /\ OthersUnchangedByLogin

LoginNext ==
  \/ SelectProfile
  \/ handleLoginClick
  \/ handlePinVerify
  \/ PinChange
  \/ ClosePinModal
  \/ PinTimerFires

\* timers that were set do run
SpecLogin == LoginInit /\ [][LoginNext]_vars /\ WF_vars(PinTimerFires)

(***************************************************************************)
(* EventList: the "Create New Event" form and handleSaveNewEvent.          *)
(***************************************************************************)
\* the clients prop of EventList
FormClients == <<[id |-> "c1", companyName |-> "Acme", primaryContactName |-> "Ann"]>>

\* the form as the effect on isAddEventModalOpen sets it
FreshNewEvent == [name |-> "", date |-> "2026-01-01", location |-> <<>>, clientId |-> ""]
FreshClientDetails == [companyName |-> <<>>, contact |-> <<>>, email |-> <<>>]

FormInit ==
  /\ newEvent = FreshNewEvent
  /\ clientMode = "existing"
  /\ newClientDetails = FreshClientDetails
  /\ isAddEventModalOpen \in BOOLEAN
  /\ addClientCalls = 0
  /\ addEventCalls = 0
  /\ saveRuns = 0
  /\ lastSave = "none"
  /\ ReconIdle
  /\ FinIdle
  /\ ScoreIdle
  /\ RestIdleExcept("form")

OthersUnchangedByForm ==
  UNCHANGED <<reconVars, finVars, scoreVars, loginVars, importerVars, quoteVars,
              calendarVars>>

\* onToggleAddEventModal(true), then the effect that initialises the form
OpenAddEventModal ==
  /\ ~isAddEventModalOpen
  /\ isAddEventModalOpen' = TRUE
  /\ newEvent' = FreshNewEvent
  /\ clientMode' = "existing"
  /\ newClientDetails' = FreshClientDetails
  /\ UNCHANGED <<addClientCalls, addEventCalls, saveRuns, lastSave>>
  /\ OthersUnchangedByForm

\* the modal's onClose
CloseAddEventModal ==
  /\ isAddEventModalOpen
  /\ isAddEventModalOpen' = FALSE
  /\ UNCHANGED <<newEvent, clientMode, newClientDetails, addClientCalls,
                 addEventCalls, saveRuns, lastSave>>
  /\ OthersUnchangedByForm

\* the Event Name, Date and Location fields; the client select, which only
\* takes a client it finds
EditNewEvent ==
  /\ isAddEventModalOpen
  /\ \/ \E v \in {"", "Gala"} : newEvent' = [newEvent EXCEPT !.name = v]
     \/ \E v \in {"", "2026-01-01"} : newEvent' = [newEvent EXCEPT !.date = v]
     \/ \E v \in {<<>>, <<" ", " ">>, <<"a", "b">>, <<" ", "a", "b", " ">>, <<"a", "b", "c">>} :
           newEvent' = [newEvent EXCEPT !.location = v]
     \/ /\ clientMode = "existing"
        /\ \E i \in 1..Len(FormClients) :
              newEvent' = [newEvent EXCEPT !.clientId = FormClients[i].id]
  /\ UNCHANGED <<clientMode, newClientDetails, isAddEventModalOpen,
                 addClientCalls, addEventCalls, saveRuns, lastSave>>
  /\ OthersUnchangedByForm

\* the Existing / New toggle
SetClientMode ==
  /\ isAddEventModalOpen
  /\ clientMode' \in {"existing", "new"}
  /\ UNCHANGED <<newEvent, newClientDetails, isAddEventModalOpen,
                 addClientCalls, addEventCalls, saveRuns, lastSave>>
  /\ OthersUnchangedByForm

\* the Company, Contact and Email fields of a new client
EditNewClientDetails ==
  /\ isAddEventModalOpen
  /\ clientMode = "new"
  /\ \E v \in {<<>>, <<" ">>, <<"a">>} :
       \/ newClientDetails' = [newClientDetails EXCEPT !.companyName = v]
       \/ newClientDetails' = [newClientDetails EXCEPT !.contact = v]
       \/ newClientDetails' = [newClientDetails EXCEPT !.email = v]
  /\ UNCHANGED <<newEvent, clientMode, isAddEventModalOpen,
                 addClientCalls, addEventCalls, saveRuns, lastSave>>
  /\ OthersUnchangedByForm

\* handleSaveNewEvent run on the form: the message it gives setError ("none":
\* setError is not called) and whether onAddClient and onAddEvent are called
SaveOutcome(ev, mode, details) ==
  IF ev.name = "" \/ ev.date = "" \/ ev.location = <<>>
  THEN [error |-> "details", addClient |-> FALSE, addEvent |-> FALSE]
  ELSE IF mode = "existing" /\ ev.clientId = ""
  THEN [error |-> "client", addClient |-> FALSE, addEvent |-> FALSE]
  ELSE IF mode = "new" /\ (Trim(details.companyName) = <<>> \/ Trim(details.contact) = <<>>
                              \/ Trim(details.email) = <<>>)
  THEN [error |-> "newclient", addClient |-> FALSE, addEvent |-> FALSE]
  \* in "new" mode onAddClient has been called by now
  ELSE IF Len(Trim(ev.location)) < 3
  THEN [error |-> "location", addClient |-> (mode = "new"), addEvent |-> FALSE]
  ELSE [error |-> "none", addClient |-> (mode = "new"), addEvent |-> TRUE]

\* handleSaveNewEvent: the modal's onSave
handleSaveNewEvent ==
  /\ isAddEventModalOpen
  /\ saveRuns < MaxSaves
  /\ saveRuns' = saveRuns + 1
  /\ \E out \in {SaveOutcome(newEvent, clientMode, newClientDetails)} :
       /\ lastSave' = (IF out.error = "none" THEN "saved" ELSE out.error)
       /\ addClientCalls' = addClientCalls + (IF out.addClient THEN 1 ELSE 0)
       /\ addEventCalls' = addEventCalls + (IF out.addEvent THEN 1 ELSE 0)
       \* onToggleAddEventModal(false)
       /\ isAddEventModalOpen' = (out.error # "none")
  /\ UNCHANGED <<newEvent, clientMode, newClientDetails>>
  /\ OthersUnchangedByForm

FormNext ==
  \/ OpenAddEventModal
  \/ CloseAddEventModal
  \/ EditNewEvent
  \/ SetClientMode
  \/ EditNewClientDetails
  \/ handleSaveNewEvent

SpecForm == FormInit /\ [][FormNext]_vars

(***************************************************************************)
(* SmartItemImporter: the uploaded files and their previews.               *)
(***************************************************************************)
\* file.name of the files a user can pick; file.type starts with 'image/'
\* for the .png ones
UploadNames == {"a.png", "b.png", "c.pdf"}
IsImage(name) == name \in {"a.png", "b.png"}

ImporterInit ==
  /\ files = <<>>
  /\ previews = <<>>
  /\ pendingReads = <<>>
  /\ ReconIdle
  /\ FinIdle
  /\ ScoreIdle
  /\ RestIdleExcept("importer")

\* prev.filter((_, index) => index !== indexToRemove), index counted from 0
FilterOutIndex(s, indexToRemove) ==
  [k \in 1..(Len(s) - (IF indexToRemove < Len(s) THEN 1 ELSE 0)) |->
     IF k <= indexToRemove THEN s[k] ELSE s[k + 1]]

\* processFiles(fileList): the files are appended, the previews of the files
\* that are not images are appended in order, and a FileReader is started
\* for each image
processFiles(fileList) ==
  /\ Len(files) + Len(fileList) <= MaxFiles
  /\ \E started \in {SelectSeq(fileList, IsImage)} :
       /\ Len(pendingReads) + Len(started) <= MaxPendingReads
       /\ pendingReads' = pendingReads \o started
  /\ files' = files \o fileList
  /\ previews' = previews \o SelectSeq(fileList, LAMBDA name : ~IsImage(name))
  /\ UNCHANGED <<reconVars, finVars, scoreVars, loginVars, formVars, quoteVars,
                 calendarVars>>

ProcessFiles == \E fileList \in SeqsUpTo(UploadNames, 2) \ {<<>>} : processFiles(fileList)

\* reader.onloadend of one of the started readers, in any order
ReaderLoadEnd ==
  /\ \E k \in 1..Len(pendingReads) :
       /\ previews' = Append(previews, pendingReads[k])
       /\ pendingReads' = FilterOutIndex(pendingReads, k - 1)
  /\ UNCHANGED files
  /\ UNCHANGED <<reconVars, finVars, scoreVars, loginVars, formVars, quoteVars,
                 calendarVars>>

\* handleRemoveFile(index): the trash button of the preview at that index
handleRemoveFile ==
  /\ \E indexToRemove \in 0..(Len(previews) - 1) :
       /\ files' = FilterOutIndex(files, indexToRemove)
       /\ previews' = FilterOutIndex(previews, indexToRemove)
  /\ UNCHANGED pendingReads
  /\ UNCHANGED <<reconVars, finVars, scoreVars, loginVars, formVars, quoteVars,
                 calendarVars>>

ImporterNext ==
  \/ ProcessFiles
  \/ ReaderLoadEnd
  \/ handleRemoveFile

SpecImporter == ImporterInit /\ [][ImporterNext]_vars

(***************************************************************************)
(* QuoteBuilder: the rows of the quote.  Prices are counted in half units  *)
(* of the currency, so that 85.50 is the integer 171.                      *)
(***************************************************************************)
\* two of the PRODUCT_MASTER rows: 101 at 450.00 and 103 at 85.50
PRODUCT_MASTER == <<[id |-> 101, price |-> 900], [id |-> 103, price |-> 171]>>

\* parseInt(e.target.value) of the quantity field: NaN for an empty field,
\* otherwise the integer typed
QtyInputs == {NaN} \cup {Num(n) : n \in (0 - 1)..MaxQty}

QuoteInit ==
  /\ quoteItems = <<>>
  /\ selectedProductId = 101
  /\ quoteClock = 1
  /\ ReconIdle
  /\ FinIdle
  /\ ScoreIdle
  /\ RestIdleExcept("quote")

\* the product select: setSelectedProductId(Number(e.target.value))
SelectProduct ==
  /\ \E i \in 1..Len(PRODUCT_MASTER) : selectedProductId' = PRODUCT_MASTER[i].id
  /\ UNCHANGED <<quoteItems, quoteClock>>
  /\ UNCHANGED <<reconVars, finVars, scoreVars, loginVars, formVars, importerVars,
                 calendarVars>>

\* time passes: Date.now() grows
ClockTick ==
  /\ quoteClock < MaxClock
  /\ quoteClock' = quoteClock + 1
  /\ UNCHANGED <<quoteItems, selectedProductId>>
  /\ UNCHANGED <<reconVars, finVars, scoreVars, loginVars, formVars, importerVars,
                 calendarVars>>

\* addItem
addItem ==
  /\ Len(quoteItems) < MaxQuoteRows
  /\ \E i \in 1..Len(PRODUCT_MASTER) :
       /\ PRODUCT_MASTER[i].id = selectedProductId
       /\ quoteItems' = Append(quoteItems,
                               [id |-> quoteClock, productId |-> PRODUCT_MASTER[i].id,
                                qty |-> Num(1), price |-> Num(PRODUCT_MASTER[i].price),
                                total |-> Num(PRODUCT_MASTER[i].price)])
  /\ UNCHANGED <<selectedProductId, quoteClock>>
  /\ UNCHANGED <<reconVars, finVars, scoreVars, loginVars, formVars, importerVars,
                 calendarVars>>

\* newQty < 1, which is false for NaN
QtyRejected(newQty) == newQty.k = "num" /\ newQty.v < 1

\* updateQty(id, newQty)
updateQty(id, newQty) ==
  /\ quoteItems' =
       IF QtyRejected(newQty) THEN quoteItems
       ELSE [k \in 1..Len(quoteItems) |->
               IF quoteItems[k].id = id
               THEN [quoteItems[k] EXCEPT !.qty = newQty,
                                          !.total = JSMul(newQty, quoteItems[k].price)]
               ELSE quoteItems[k]]
  /\ UNCHANGED <<selectedProductId, quoteClock>>
  /\ UNCHANGED <<reconVars, finVars, scoreVars, loginVars, formVars, importerVars,
                 calendarVars>>

\* the quantity field of a row: onChange
UpdateQty ==
  \E k \in 1..Len(quoteItems) : \E newQty \in QtyInputs : updateQty(quoteItems[k].id, newQty)

\* removeItem(id): the trash button of a row
removeItem ==
  /\ \E k \in 1..Len(quoteItems) :
       quoteItems' = SelectSeq(quoteItems, LAMBDA item : item.id # quoteItems[k].id)
  /\ UNCHANGED <<selectedProductId, quoteClock>>
  /\ UNCHANGED <<reconVars, finVars, scoreVars, loginVars, formVars, importerVars,
                 calendarVars>>

\* items.reduce((sum, item) => sum + item.total, 0), from index i
RECURSIVE ReduceTotal(_, _, _)
ReduceTotal(rows, i, sum) ==
  IF i > Len(rows) THEN sum ELSE ReduceTotal(rows, i + 1, JSAdd(sum, rows[i].total))

grandTotal == ReduceTotal(quoteItems, 1, Num(0))

QuoteNext ==
  \/ SelectProduct
  \/ ClockTick
  \/ addItem
  \/ UpdateQty
  \/ removeItem

SpecQuote == QuoteInit /\ [][QuoteNext]_vars

(***************************************************************************)
(* CalendarView: the day cells of the displayed month of 2026.  A date is  *)
(* counted in days from 2026-01-01 (day 0), an instant in minutes from     *)
(* 2026-01-01T00:00Z, and a date string is the record of its year, month   *)
(* and day.                                                                *)
(***************************************************************************)
\* new Date(year, month + 1, 0).getDate() for the months of 2026 (month from 0)
DaysInMonth(month) == <<31, 28, 31, 30, 31, 30, 31, 31, 30, 31, 30, 31>>[month + 1]

RECURSIVE DaysBeforeMonth(_)
DaysBeforeMonth(month) ==
  IF month = 0 THEN 0 ELSE DaysBeforeMonth(month - 1) + DaysInMonth(month - 1)

\* new Date(year, month, i): midnight of that day on the browser's clock,
\* which runs offset minutes ahead of UTC
LocalMidnight(month, i, offset) == (DaysBeforeMonth(month) + i - 1) * 1440 - offset

\* date.toISOString().split('T')[0]: the calendar date of the instant in UTC
ISODateString(instant) ==
  IF instant < 0
  THEN [year |-> 2025, month |-> 12, day |-> 32 + (instant \div 1440)]
  ELSE CHOOSE d \in [year : {2026}, month : 1..12, day : 1..31] :
         /\ d.day <= DaysInMonth(d.month - 1)
         /\ DaysBeforeMonth(d.month - 1) + d.day - 1 = instant \div 1440

\* getEventsForDate(date) for the cell of day i: the ids of the events shown
getEventsForDate(evs, month, i, offset) ==
  SelectSeq(evs, LAMBDA e : e.date = ISODateString(LocalMidnight(month, i, offset)))

\* the day cells of the grid: days.map(...) without the padding cells
CalendarCells(evs, month, offset) ==
  [i \in 1..DaysInMonth(month) |-> getEventsForDate(evs, month, i, offset)]

\* e.date of the events: the first and last days of months
CalendarDatePool ==
  { [year |-> 2025, month |-> 12, day |-> 31], [year |-> 2026, month |-> 1, day |-> 1],
    [year |-> 2026, month |-> 1, day |-> 31],  [year |-> 2026, month |-> 2, day |-> 1],
    [year |-> 2026, month |-> 2, day |-> 28],  [year |-> 2026, month |-> 3, day |-> 1] }

\* browser clocks: UTC-5, UTC, UTC+3, UTC+5:30, in minutes ahead of UTC
TimezoneOffsets == {0 - 300, 0, 180, 330}

CalendarInit ==
  /\ \E dates \in SeqsUpTo(CalendarDatePool, MaxCalendarEvents) :
       calendarEvents = [k \in 1..Len(dates) |-> [eventId |-> k, date |-> dates[k]]]
  /\ tzOffset \in TimezoneOffsets
  \* new Date(): today is in one of the first months of 2026
  /\ todayMonth \in 0..MaxMonth
  /\ currentMonth = todayMonth
  /\ dayCells = CalendarCells(calendarEvents, currentMonth, tzOffset)
  /\ ReconIdle
  /\ FinIdle
  /\ ScoreIdle
  /\ RestIdleExcept("calendar")

\* setCurrentDate(...) and the render that follows
ShowMonth(month) ==
  /\ currentMonth' = month
  /\ dayCells' = CalendarCells(calendarEvents, month, tzOffset)
  /\ UNCHANGED <<calendarEvents, tzOffset, todayMonth>>
  /\ UNCHANGED <<reconVars, finVars, scoreVars, loginVars, formVars, importerVars, quoteVars>>

handlePrevMonth == currentMonth > 0 /\ ShowMonth(currentMonth - 1)

handleNextMonth == currentMonth < MaxMonth /\ ShowMonth(currentMonth + 1)

\* the Today button: setCurrentDate(new Date())
ShowToday == ShowMonth(todayMonth)

CalendarNext ==
  \/ handlePrevMonth
  \/ handleNextMonth
  \/ ShowToday

SpecCalendar == CalendarInit /\ [][CalendarNext]_vars

(***************************************************************************)
(* Properties of the reconciliation pass.                                  *)
(***************************************************************************)
\* The event ids the unresolved list holds
UnresolvedIds == {unlinkedEvents[k].event.eventId : k \in 1..Len(unlinkedEvents)}

\* C1: an event whose trimmed, lowercased clientName equals the trimmed,
\* lowercased companyName of some client is not in the unresolved list,
\* whatever the ignored set and the event's clientId are.
C1_ExactMatchNotUnresolved ==
  phase = "open" =>
    \A i \in 1..Len(events) :
      (\E j \in 1..Len(clients) :
          ToLowerCase(Trim(clients[j].companyName))
            = ToLowerCase(Trim(events[i].clientName)))
      => events[i].eventId \notin UnresolvedIds

\* C1 witness: with some event ignored, a pass has left out an event that
\* carries a clientId and matches a client only after trimming and lowercasing
C1_Witness ==
  /\ phase = "open"
  /\ ignoredIds # {}
  /\ \E i \in 1..Len(events) : \E j \in 1..Len(clients) :
        /\ clients[j].companyName # events[i].clientName
        /\ events[i].clientId # 0
        /\ ToLowerCase(Trim(clients[j].companyName))
             = ToLowerCase(Trim(events[i].clientName))
        /\ events[i].eventId \notin UnresolvedIds

\* C2: an event whose clientName is empty scores 0 against every candidate
\* client, and is listed as unresolved (unless ignored) with a score of 0 and
\* no suggested match offered.
C2_EmptyNameScoresZero ==
  phase = "open" =>
    /\ \A i \in 1..Len(events) :
         (events[i].clientName = <<>> /\ events[i].eventId \notin ignoredIds)
         => events[i].eventId \in UnresolvedIds
    /\ \A k \in 1..Len(unlinkedEvents) :
         unlinkedEvents[k].event.clientName = <<>>
         => /\ \A j \in 1..Len(scannedClients) :
                 calculateMatchScore(<<>>, scannedClients[j].companyName).n = 0
            /\ unlinkedEvents[k].matchScore.n = 0
            /\ (k = currentIndex + 1 => view # "suggest")

\* The score of the listed item k against client j of the scanned list, the
\* greatest such score being reached at j
ItemScore(k, j) ==
  calculateMatchScore(unlinkedEvents[k].event.clientName, scannedClients[j].companyName)
IsMaxAt(k, j) ==
  \A l \in 1..Len(scannedClients) : ~FracGT(ItemScore(k, l), ItemScore(k, j))
IsFirstMaxAt(k, j) ==
  /\ IsMaxAt(k, j)
  /\ \A l \in 1..(j - 1) : FracGT(ItemScore(k, j), ItemScore(k, l))

\* C9 as stated: for every unresolved event and non-empty client list, the
\* suggested client is the first client of the list that reaches the maximum
\* score over all clients.
C9_SuggestedIsFirstMax ==
  phase = "open" =>
    \A k \in 1..Len(unlinkedEvents) : \A j \in 1..Len(scannedClients) :
      IsFirstMaxAt(k, j) => unlinkedEvents[k].suggestedMatch = scannedClients[j]

\* C9 amended: when the maximum score over all clients is greater than 0, the
\* suggested client is the first client of the list that reaches it and the
\* item's score is that maximum; when no client scores above 0 (or there is
\* no client) there is no suggested client and the score is 0.
C9_SuggestedIsFirstPositiveMax ==
  phase = "open" =>
    \A k \in 1..Len(unlinkedEvents) :
      /\ \A j \in 1..Len(scannedClients) :
           (IsFirstMaxAt(k, j) /\ ItemScore(k, j).n > 0)
           => /\ unlinkedEvents[k].suggestedMatch = scannedClients[j]
              /\ FracEq(unlinkedEvents[k].matchScore, ItemScore(k, j))
      /\ (\A j \in 1..Len(scannedClients) : ItemScore(k, j).n = 0)
           => /\ unlinkedEvents[k].suggestedMatch = NoClient
              /\ unlinkedEvents[k].matchScore.n = 0

\* C9 witness: an unresolved event with a non-empty name for which two clients
\* share the positive maximum; the first of them is suggested
C9_Witness ==
  /\ phase = "open"
  /\ \E k \in 1..Len(unlinkedEvents) : \E i, j \in 1..Len(scannedClients) :
        /\ i < j
        /\ IsFirstMaxAt(k, i)
        /\ IsMaxAt(k, j)
        /\ ItemScore(k, i).n > 0
        /\ unlinkedEvents[k].event.clientName # <<>>
        /\ unlinkedEvents[k].suggestedMatch = scannedClients[i]

\* C10: the suggested-match card is shown only for a current item that has a
\* suggested client with score > 0.4; a current item with score <= 0.4 or no
\* suggested client is shown with manual selection and creation only.
C10_SuggestionOnlyAboveThreshold ==
  phase = "open" =>
    /\ view = "suggest"
         => /\ HasCurrentItem(unlinkedEvents, currentIndex)
            /\ unlinkedEvents[currentIndex + 1].suggestedMatch.id # 0
            /\ 10 * unlinkedEvents[currentIndex + 1].matchScore.n
                 > 4 * unlinkedEvents[currentIndex + 1].matchScore.d
    /\ (/\ view \in {"suggest", "manual"}
        /\ 10 * unlinkedEvents[currentIndex + 1].matchScore.n
             <= 4 * unlinkedEvents[currentIndex + 1].matchScore.d)
         => view = "manual"

\* C10 witness: the card is shown for a token-overlap score strictly between
\* 0.5 and 0.8
C10_Witness ==
  /\ phase = "open"
  /\ view = "suggest"
  /\ 10 * unlinkedEvents[currentIndex + 1].matchScore.n
       < 8 * unlinkedEvents[currentIndex + 1].matchScore.d

(***************************************************************************)
(* Properties of the financial aggregation.                                *)
(***************************************************************************)
\* Sum of a sequence of integers
RECURSIVE SumSeq(_)
SumSeq(q) == IF q = <<>> THEN 0 ELSE q[Len(q)] + SumSeq(SubSeq(q, 1, Len(q) - 1))

\* A numeric field with a missing value read as 0
ValueOr0(x) == IF x.k = "num" THEN x.v ELSE 0
\* A quantity with a missing or negative value read as 0
QuantityFloor0(x) == IF ValueOr0(x) < 0 THEN 0 ELSE ValueOr0(x)
\* The line items of an event, none when it has no cost_tracker
ItemsOf(event) == IF event.cost_tracker.k = "arr" THEN event.cost_tracker.items ELSE <<>>

ExpectedRevenue(event) ==
  SumSeq([i \in 1..Len(ItemsOf(event)) |->
            ValueOr0(ItemsOf(event)[i].client_price_sar)
              * ValueOr0(ItemsOf(event)[i].quantity)])
ExpectedCost(event) ==
  SumSeq([i \in 1..Len(ItemsOf(event)) |->
            ValueOr0(ItemsOf(event)[i].unit_cost_sar)
              * ValueOr0(ItemsOf(event)[i].quantity)])

\* C3: a line item with a negative quantity counts as quantity 0: the revenue
\* and the cost of every event are the sums over its line items of price and
\* unit cost times the quantity, with a negative quantity taken as 0.
C3_NegativeQuantityCountsAsZero ==
  finPhase = "rendered" =>
    \A i \in 1..Len(finEvents) :
      /\ eventFinancials[i].revenue =
           Num(SumSeq([j \in 1..Len(ItemsOf(finEvents[i])) |->
                 ValueOr0(ItemsOf(finEvents[i])[j].client_price_sar)
                   * QuantityFloor0(ItemsOf(finEvents[i])[j].quantity)]))
      /\ eventFinancials[i].cost =
           Num(SumSeq([j \in 1..Len(ItemsOf(finEvents[i])) |->
                 ValueOr0(ItemsOf(finEvents[i])[j].unit_cost_sar)
                   * QuantityFloor0(ItemsOf(finEvents[i])[j].quantity)]))

\* C4: for every event, revenue = sum(client_price_sar * quantity), cost =
\* sum(unit_cost_sar * quantity), profit = revenue - cost, margin = profit /
\* revenue * 100 when revenue > 0 and 0 otherwise; the event with the single
\* line item (100, 60, 2) has revenue 200, cost 120, profit 80, margin 40.
C4_WithFinancials ==
  finPhase = "rendered" =>
    /\ Len(eventFinancials) = Len(finEvents)
    /\ \A i \in 1..Len(finEvents) :
         LET f == eventFinancials[i]
             revenue == ExpectedRevenue(finEvents[i])
             cost == ExpectedCost(finEvents[i])
         IN /\ f.revenue = Num(revenue)
            /\ f.cost = Num(cost)
            /\ f.profit = Num(revenue - cost)
            /\ f.margin.d # 0
            /\ revenue > 0 => f.margin.n * revenue = (revenue - cost) * 100 * f.margin.d
            /\ revenue <= 0 => f.margin.n = 0
            /\ finEvents[i].cost_tracker =
                  Arr(<<[client_price_sar |-> Num(100), unit_cost_sar |-> Num(60),
                         quantity |-> Num(2)]>>)
                => /\ f.revenue.v = 200 /\ f.cost.v = 120 /\ f.profit.v = 80
                   /\ f.margin.n = 40 * f.margin.d

\* C4 witness: a render of an event with two line items and a positive revenue
\* beside an event with an empty cost_tracker, whose margin is 0
C4_Witness ==
  /\ finPhase = "rendered"
  /\ \E i, j \in 1..Len(finEvents) :
        /\ Len(ItemsOf(finEvents[i])) = 2
        /\ eventFinancials[i].revenue.v > 0
        /\ eventFinancials[i].margin.n > 0
        /\ finEvents[j].cost_tracker = Arr(<<>>)
        /\ eventFinancials[j].margin.n = 0

\* C5: with a missing client_price_sar, unit_cost_sar, quantity or cost_tracker
\* the missing value counts as 0: revenue, cost, profit and margin of every
\* event and the portfolio totals are numbers, never NaN, and the totals are
\* the sums of the per-event values.
C5_MissingFieldsCountAsZero ==
  finPhase = "rendered" =>
    /\ \A i \in 1..Len(finEvents) :
         /\ eventFinancials[i].revenue.k = "num"
         /\ eventFinancials[i].cost.k = "num"
         /\ eventFinancials[i].profit.k = "num"
         /\ eventFinancials[i].margin.d > 0
         /\ finEvents[i].cost_tracker.k = "undef"
              => /\ eventFinancials[i].revenue.v = 0
                 /\ eventFinancials[i].cost.v = 0
                 /\ eventFinancials[i].profit.v = 0
    /\ overallFinancials.totalRevenue =
         Num(SumSeq([i \in 1..Len(finEvents) |-> ExpectedRevenue(finEvents[i])]))
    /\ overallFinancials.totalCost =
         Num(SumSeq([i \in 1..Len(finEvents) |-> ExpectedCost(finEvents[i])]))
    /\ overallFinancials.totalProfit =
         Num(overallFinancials.totalRevenue.v - overallFinancials.totalCost.v)
    /\ overallFinancials.overallMargin.d > 0

\* C5 witness: a render of an event without cost_tracker beside an event with
\* a line item whose three fields are all missing, with a positive total
C5_Witness ==
  /\ finPhase = "rendered"
  /\ overallFinancials.totalRevenue.k = "num"
  /\ overallFinancials.totalRevenue.v > 0
  /\ \E i, j \in 1..Len(finEvents) :
        /\ finEvents[i].cost_tracker.k = "undef"
        /\ \E l \in 1..Len(ItemsOf(finEvents[j])) :
             /\ ItemsOf(finEvents[j])[l].client_price_sar.k = "undef"
             /\ ItemsOf(finEvents[j])[l].unit_cost_sar.k = "undef"
             /\ ItemsOf(finEvents[j])[l].quantity.k = "undef"

(***************************************************************************)
(* Properties of the commission summary and ledger.                        *)
(***************************************************************************)
\* The rate, in percent, the event i earns for user u: the event's own rate
\* when defined (0 included), else the user's, else 0
ExpectedRate(i, u) ==
  IF finEvents[i].commissionRate.k = "num" THEN finEvents[i].commissionRate.v
  ELSE IF u.commissionRate.k = "num" THEN u.commissionRate.v
  ELSE 0

\* 100 times the commission event i earns for user u
ExpectedAmount100(i, u) ==
  IF finEvents[i].salespersonId = u.userId /\ eventFinancials[i].profit.v > 0
  THEN eventFinancials[i].profit.v * ExpectedRate(i, u)
  ELSE 0

\* C6: for each Sales user, totalCommission is the sum over the user's events
\* with profit > 0 of profit * rate / 100, the rate being the event's when
\* defined (0 included), else the user's, else 0; paidCommission is the same
\* sum over the events with commissionPaid set.
C6_CommissionSummary ==
  finPhase = "rendered" =>
    \A r \in 1..Len(commissionData.summary) :
      LET row == commissionData.summary[r] IN
        /\ row.user.role = "Sales"
        /\ row.totalCommission.d > 0
        /\ row.paidCommission.d > 0
        /\ row.totalCommission.n * 100 = row.totalCommission.d
             * SumSeq([i \in 1..Len(finEvents) |-> ExpectedAmount100(i, row.user)])
        /\ row.paidCommission.n * 100 = row.paidCommission.d
             * SumSeq([i \in 1..Len(finEvents) |->
                        IF finEvents[i].commissionPaid = "true"
                        THEN ExpectedAmount100(i, row.user) ELSE 0])

\* C6 witness: a Sales user with a default rate, one profitable event with its
\* own rate of 0 and one profitable, paid event without a rate of its own
C6_Witness ==
  /\ finPhase = "rendered"
  /\ \E r \in 1..Len(commissionData.summary) : \E i, j \in 1..Len(finEvents) :
        LET row == commissionData.summary[r] IN
          /\ row.user.commissionRate.k = "num"
          /\ finEvents[i].salespersonId = row.user.userId
          /\ finEvents[j].salespersonId = row.user.userId
          /\ eventFinancials[i].profit.v > 0
          /\ eventFinancials[j].profit.v > 0
          /\ finEvents[i].commissionRate = Num(0)
          /\ finEvents[j].commissionRate.k = "undef"
          /\ finEvents[j].commissionPaid = "true"
          /\ row.paidCommission.n > 0

\* C7: eventCount of a Sales user's row is the number of events whose
\* salespersonId is that user, whatever their profit; the rows are those of
\* the Sales users, so a user of another role has no row.
C7_EventCount ==
  finPhase = "rendered" =>
    /\ Len(commissionData.summary)
         = Cardinality({p \in 1..Len(users) : users[p].role = "Sales"})
    /\ \A p \in 1..Len(users) :
         users[p].role = "Sales"
         <=> \E r \in 1..Len(commissionData.summary) :
                commissionData.summary[r].user = users[p]
    /\ \A r \in 1..Len(commissionData.summary) :
         commissionData.summary[r].eventCount
           = Cardinality({i \in 1..Len(finEvents) :
               finEvents[i].salespersonId = commissionData.summary[r].user.userId})

\* C7 witness: a Sales user's row counts an event without profit, and an event
\* is assigned to a user of another role
C7_Witness ==
  /\ finPhase = "rendered"
  /\ \E r \in 1..Len(commissionData.summary) : \E i \in 1..Len(finEvents) :
        /\ finEvents[i].salespersonId = commissionData.summary[r].user.userId
        /\ eventFinancials[i].profit.v < 0
        /\ commissionData.summary[r].eventCount = 1
  /\ \E p \in 1..Len(users) : \E i \in 1..Len(finEvents) :
        /\ users[p].role # "Sales"
        /\ finEvents[i].salespersonId = users[p].userId

\* Position of a user in users, of a ledger entry's event in events
UserPos(user) == CHOOSE p \in 1..Len(users) : users[p] = user
\* The pair (Sales user at p, event at i) earns a ledger entry
EarnsEntry(p, i) ==
  /\ users[p].role = "Sales"
  /\ finEvents[i].salespersonId = users[p].userId
  /\ eventFinancials[i].profit.v > 0
  /\ eventFinancials[i].profit.v * ExpectedRate(i, users[p]) > 0

\* C8: the ledger holds exactly one entry for each pair of a Sales user and
\* an event of that user with profit > 0 and commission amount > 0, and no
\* other entry; the entries are ordered by user, then by event.
C8_CommissionLedger ==
  finPhase = "rendered" =>
    LET ledger == commissionData.detailedLedger IN
      /\ \A k \in 1..Len(ledger) :
           /\ \E p \in 1..Len(users) : users[p] = ledger[k].user
           /\ ledger[k].event.eventId \in 1..Len(finEvents)
           /\ ledger[k].event = eventFinancials[ledger[k].event.eventId]
           /\ EarnsEntry(UserPos(ledger[k].user), ledger[k].event.eventId)
           /\ ledger[k].commissionAmount.n * 100 = ledger[k].commissionAmount.d
                * ExpectedAmount100(ledger[k].event.eventId, ledger[k].user)
      /\ \A p \in 1..Len(users) : \A i \in 1..Len(finEvents) :
           EarnsEntry(p, i)
           => Cardinality({k \in 1..Len(ledger) :
                 ledger[k].user = users[p] /\ ledger[k].event.eventId = i}) = 1
      /\ \A k, l \in 1..Len(ledger) :
           k < l =>
             \/ UserPos(ledger[k].user) < UserPos(ledger[l].user)
             \/ /\ UserPos(ledger[k].user) = UserPos(ledger[l].user)
                /\ ledger[k].event.eventId < ledger[l].event.eventId

\* C8 witness: two entries, the first for the later event because its user
\* comes first in users
C8_Witness ==
  /\ finPhase = "rendered"
  /\ Len(commissionData.detailedLedger) = 2
  /\ commissionData.detailedLedger[1].event.eventId
       > commissionData.detailedLedger[2].event.eventId

(***************************************************************************)
(* Resolution actions of the ClientValidationModal.                        *)
(***************************************************************************)
\* The item the wizard shows in the state before a step
ActedItem == unlinkedEvents[currentIndex + 1]

\* A step the open wizard takes from its item view
ItemStep == phase = "open" /\ phase' = "open" /\ view \in {"suggest", "manual"}

\* Which resolution action the step is: only create adds a client, only link
\* changes an event, only ignore changes the ignored set
IsCreateStep == ItemStep /\ Len(clients') = Len(clients) + 1
IsIgnoreStep == ItemStep /\ Len(clients') = Len(clients) /\ events' = events
IsLinkStep == ItemStep /\ Len(clients') = Len(clients) /\ ignoredIds' = ignoredIds

\* The first client carrying the name
FirstNamed(name) ==
  CHOOSE i \in 1..Len(clients) :
     /\ clients[i].companyName = name
     /\ \A j \in 1..(i - 1) : clients[j].companyName # name

\* The event as linkToExisting(event, name of client i) leaves it
ExpectedLinked(e, i) ==
  [e EXCEPT !.clientName = clients[i].companyName,
            !.clientContact =
               IF e.clientContact \in {"", "TBD"}
               THEN clients[FirstNamed(clients[i].companyName)].primaryContactName
               ELSE e.clientContact]

\* C11: a link step changes the acted-on event only: its clientName becomes
\* the chosen client's name, its clientContact becomes that client's
\* primaryContactName exactly when it was empty or "TBD" and otherwise keeps
\* its value; its other fields and all other events stay as they were
C11_LinkEffect ==
  [][IsLinkStep =>
       \E i \in 1..Len(clients) :
          events' = [k \in 1..Len(events) |->
                       IF events[k].eventId = ActedItem.event.eventId
                       THEN ExpectedLinked(events[k], i)
                       ELSE events[k]]]_vars

\* C11 witness: an event that was linked and adopted a client's contact
C11_Witness ==
  \E k \in 1..Len(events) : \E c \in ClientPool :
     /\ events[k].clientName = c.companyName
     /\ events[k].clientContact = c.primaryContactName

ClientIds(clientList) == {clientList[j].id : j \in 1..Len(clientList)}

\* C12: a create step leaves events as they were, adds to clients exactly one
\* client, under a fresh id, whose companyName is the acted-on event's
\* clientName, and the reconciliation pass that follows does not list that
\* event
C12_CreateEffect ==
  [][IsCreateStep =>
       /\ events' = events
       /\ \E j \in 1..Len(clients') :
             /\ clients'[j].companyName = ActedItem.event.clientName
             /\ clients'[j].id \notin ClientIds(clients)
             /\ {clients'[n] : n \in 1..Len(clients') \ {j}}
                  = {clients[m] : m \in 1..Len(clients)}
       /\ ActedItem.event.eventId \notin UnresolvedIds']_vars

\* C12 witness: a client created from an event (no client of the inputs has
\* these contacts) whose name some event carries, that event not being listed
C12_Witness ==
  \E j \in 1..Len(clients) : \E k \in 1..Len(events) :
     /\ clients[j].primaryContactName \in {"TBD", "Sam", "Primary Contact"}
     /\ events[k].clientName = clients[j].companyName
     /\ events[k].eventId \notin UnresolvedIds

\* C13 as stated: an id, once in the ignored set, is in it after every step
C13_IgnoredForTheSession ==
  [][\A id \in ignoredIds : id \in ignoredIds']_vars

\* C13: an ignore step adds the acted-on event's id to the ignored set; ids
\* in the ignored set are never listed; every step of the open wizard keeps
\* the ids already ignored, except Re-scan on the completion screen, which
\* empties the set
C13_IgnoredUntilRescan ==
  [][/\ IsIgnoreStep => ignoredIds' = ignoredIds \cup {ActedItem.event.eventId}
     /\ ignoredIds' \cap UnresolvedIds' = {}
     /\ (phase = "open" /\ view # "complete") => ignoredIds \subseteq ignoredIds'
     /\ (phase = "open" /\ view = "complete") => ignoredIds' = {}]_vars

\* C13 witness: an event was ignored and a later event was linked after it,
\* the ignored id still being in the set
C13_Witness ==
  \E id \in ignoredIds : \E k \in 1..Len(events) : \E c \in ClientPool :
     /\ events[k].eventId > id
     /\ events[k].clientName = c.companyName
     /\ events[k].clientContact = c.primaryContactName

\* C14: after a link, create or ignore step the reconciliation pass lists a
\* subset of the events it listed before, fewer of them, and not the event
\* the step acted on
C14_UnresolvedShrinks ==
  [][(IsLinkStep \/ IsCreateStep \/ IsIgnoreStep) =>
       /\ UnresolvedIds' \subseteq UnresolvedIds
       /\ Cardinality(UnresolvedIds') < Cardinality(UnresolvedIds)
       /\ ActedItem.event.eventId \notin UnresolvedIds']_vars

\* C14 witness: one event was ignored, a client was created from another, and
\* a third is still listed
C14_Witness ==
  /\ ignoredIds # {}
  /\ \E j \in 1..Len(clients) :
        clients[j].primaryContactName \in {"TBD", "Sam", "Primary Contact"}
  /\ UnresolvedIds # {}

\* Position of the event of that id in the events array
EventPos(evs, id) == CHOOSE p \in 1..Len(evs) : evs[p].eventId = id

\* The list holds events of the events array, unaltered, in the array's order
ListedInInputOrder(unlinked, evs) ==
  /\ \A p \in 1..Len(unlinked) :
        \E k \in 1..Len(evs) : unlinked[p].event = evs[k]
  /\ \A p, q \in 1..Len(unlinked) :
        p < q => EventPos(evs, unlinked[p].event.eventId)
                   < EventPos(evs, unlinked[q].event.eventId)

C16_ScoreReflexive ==
  (scorePhase = "scored" /\ scoreTarget # <<>>)
     => FracEq(matchScores.self, Frac(10, 10))

\* C16 witness: a scored non-empty name that has neither letter nor digit
C16_Witness ==
  /\ scorePhase = "scored"
  /\ scoreTarget # <<>>
  /\ StripNonAlnum(ToLowerCase(scoreTarget)) = <<>>
  /\ FracEq(matchScores.self, Frac(10, 10))

\* C17: the score of (a, b) equals the score of (b, a)
C17_ScoreSymmetric ==
  scorePhase = "scored" => FracEq(matchScores.forward, matchScores.backward)

\* C17 witness: two different names scored in the token-overlap branch, one
\* token of two shared (0.7)
C17_Witness ==
  /\ scorePhase = "scored"
  /\ scoreTarget # scoreCandidate
  /\ FracEq(matchScores.forward, Frac(7, 10))
  /\ FracEq(matchScores.backward, Frac(7, 10))

(***************************************************************************)
(* Sorting policy of the financial list views.                             *)
(***************************************************************************)
\* x comes before y under the stated policy: numbers by value, strings by
\* their lowercased text
PolicyLess(x, y) ==
  IF x.k = "num" /\ y.k = "num" THEN x.v < y.v
  ELSE IF x.k = "str" /\ y.k = "str"
       THEN StrLessFrom(ToLowerCase(x.v), ToLowerCase(y.v), 1)
       ELSE FALSE

\* No two values of the sequence are out of order for the direction
InPolicyOrder(values, direction) ==
  \A i, j \in 1..Len(values) :
     i < j => IF direction = "asc" THEN ~PolicyLess(values[j], values[i])
              ELSE ~PolicyLess(values[i], values[j])

\* C18: on its tab each sorted list is in the order of the selected key for
\* the selected direction, strings compared without regard to case and
\* numbers by value
C18_SortedByPolicy ==
  finPhase = "rendered" =>
     /\ activeTab = "event deep dive" =>
          InPolicyOrder([i \in 1..Len(sortedEvents) |->
                           EventField(sortedEvents[i], sortConfig.key)],
                        sortConfig.direction)
     /\ activeTab = "pricing & margin analysis" =>
          InPolicyOrder([i \in 1..Len(sortedServices) |->
                           ServiceField(sortedServices[i], sortConfig.key)],
                        sortConfig.direction)

\* A step in which a column header was clicked: the studio is rendered and
\* the tab stays
IsSortStep == finPhase = "rendered" /\ activeTab' = activeTab

\* C19: requestSort on the current sort key flips the direction (asc to desc,
\* desc to asc); on another key it sets that key with direction asc
C19_RequestSortToggles ==
  [][IsSortStep =>
       /\ sortConfig'.key \in SortKeys
       /\ sortConfig'.key = sortConfig.key =>
            /\ sortConfig'.direction \in {"asc", "desc"}
            /\ sortConfig'.direction # sortConfig.direction
       /\ sortConfig'.key # sortConfig.key => sortConfig'.direction = "asc"]_vars

\* C19 witness: the name column selected twice running, now descending
C19_Witness ==
  /\ finPhase = "rendered"
  /\ sortConfig = [key |-> "name", direction |-> "desc"]

(***************************************************************************)
(* The store's collections as the ClientValidationModal leaves them.       *)
(***************************************************************************)
\* C20: the events and clients arrays of the store change only as
\* onUpdateEvent and onAddClient change them: events keeps its length and the
\* ids at each position, and clients either stays as it is, element for
\* element, or gets one new record appended to the records it had, in the
\* order they had
C20_CollectionsChangeOnlyThroughStore ==
  [][/\ Len(events') = Len(events)
     /\ \A k \in 1..Len(events) : events'[k].eventId = events[k].eventId
     /\ Len(clients') \in {Len(clients), Len(clients) + 1}
     /\ SubSeq(clients', 1, Len(clients)) = clients]_vars

(***************************************************************************)
(* Validation in the reconciliation flow.                                  *)
(***************************************************************************)
\* C21: a create step acts on an event whose clientName is not empty, and a
\* link step gives the event the name of a selected client, which is not
\* empty
C21_CreateNeedsNameLinkNeedsSelection ==
  [][/\ IsCreateStep => ActedItem.event.clientName # <<>>
     /\ IsLinkStep =>
          \A k \in 1..Len(events) :
             events'[k] # events[k] => events'[k].clientName # <<>>]_vars

\* C22: while the completion screen is shown, every event has a client of the
\* same trimmed, lowercased name
C22_CompleteMeansAllLinked ==
  (phase = "open" /\ view = "complete") =>
     \A k \in 1..Len(events) : HasExactMatch(events[k], clients)

\* C23: when the completion screen is shown, every event the first pass
\* listed has been shown as the current item (an event that another action
\* resolved in passing, by creating the client it names, needs no showing)
C23_AllPresentedBeforeComplete ==
  (phase = "open" /\ view = "complete") =>
     \A k \in 1..Len(events) :
        (events[k].eventId \in openUnresolved /\ ~HasExactMatch(events[k], clients))
           => events[k].eventId \in presented

\* C24: while the wizard is not complete and the list is not empty,
\* currentIndex is an index of the list, so an item is rendered
C24_CurrentIndexValid ==
  (phase = "open" /\ ~isComplete /\ Len(unlinkedEvents) > 0) =>
     /\ HasCurrentItem(unlinkedEvents, currentIndex)
     /\ view # "blank"

(***************************************************************************)
(* C25: an Admin user is logged in only by a step whose entered PIN equals *)
(* settings.adminPin, or 1234 when adminPin is empty; the PIN modal opens  *)
(* only for an Admin profile and a login with the modal closed is the      *)
(* direct login of a non-Admin profile; a rejected PIN logs nobody in and  *)
(* leaves the input empty, and a wrong four-digit entry is always cleared  *)
(* (or replaced by a login with the right PIN).                            *)
(***************************************************************************)
C25_AdminLoginRequiresPin ==
  /\ [][/\ (loggedInAs = "none" /\ loggedInAs' # "none") =>
              /\ loggedInAs' = selectedUserId
              /\ IsAdminId(landingUsers, loggedInAs') =>
                    /\ showPinModal
                    /\ pinInput' = (IF adminPin = <<>> THEN <<"1", "2", "3", "4">> ELSE adminPin)
              /\ ~showPinModal => ~IsAdminId(landingUsers, loggedInAs')
        /\ (~showPinModal /\ showPinModal') => IsAdminId(landingUsers, selectedUserId)
        /\ (loggedInAs = "none" /\ pinError' /\ ~pinError) =>
              /\ loggedInAs' = "none"
              /\ pinInput' = <<>>]_vars
  /\ (/\ loggedInAs = "none"
      /\ Len(pinInput) = 4
      /\ pinInput # (IF adminPin = <<>> THEN <<"1", "2", "3", "4">> ELSE adminPin))
        ~> (pinInput = <<>> \/ loggedInAs # "none")

\* an Admin has been logged in with the default PIN while the timer of a
\* wrong attempt is still waiting
C25_Witness ==
  /\ adminPin = <<>>
  /\ loggedInAs = "u1"
  /\ IsAdminId(landingUsers, "u1")
  /\ pinInput = <<"1", "2", "3", "4">>
  /\ pendingPinTimers > 0

(***************************************************************************)
(* C26: a run of handleSaveNewEvent that ends with a validation error has  *)
(* called neither onAddClient nor onAddEvent and leaves the modal open,    *)
(* and a run that calls onAddClient also calls onAddEvent.                 *)
(***************************************************************************)
C26_SaveIsAllOrNothing ==
  [][saveRuns' # saveRuns =>
       /\ lastSave' # "saved" =>
            /\ addClientCalls' = addClientCalls
            /\ addEventCalls' = addEventCalls
            /\ isAddEventModalOpen'
       /\ addClientCalls' # addClientCalls => addEventCalls' # addEventCalls]_vars

(***************************************************************************)
(* C27: once every started FileReader has ended, files and previews have   *)
(* the same length and previews[i].name = files[i].name at every index.    *)
(***************************************************************************)
C27_PreviewsAlignedWithFiles ==
  pendingReads = <<>> =>
     /\ Len(previews) = Len(files)
     /\ \A i \in 1..Len(previews) : previews[i] = files[i]

(***************************************************************************)
(* C28: every row of the quote has an integer qty >= 1 and total = qty *   *)
(* price, and the subtotal is the sum of the row totals.                   *)
(***************************************************************************)
C28_RowsValid ==
  /\ \A k \in 1..Len(quoteItems) :
        /\ quoteItems[k].qty.k = "num"
        /\ quoteItems[k].qty.v >= 1
        /\ quoteItems[k].total = Num(quoteItems[k].qty.v * quoteItems[k].price.v)
  /\ grandTotal.k = "num"

(***************************************************************************)
(* C29: in every day cell of the displayed month, whatever the browser's   *)
(* timezone offset, the events shown are exactly the events whose date     *)
(* string is the local calendar date of the cell.                          *)
(***************************************************************************)
C29_CellShowsEventsOfItsDate ==
  \A i \in 1..Len(dayCells) :
     dayCells[i] = SelectSeq(calendarEvents,
                             LAMBDA e : e.date = [year |-> 2026, month |-> currentMonth + 1, day |-> i])

\* Sum of commissionAmount over ledger entries, from index i
RECURSIVE SumCommissionAmount(_, _)
SumCommissionAmount(entries, i) ==
  IF i > Len(entries) THEN Frac(0, 1)
  ELSE FracAdd(entries[i].commissionAmount, SumCommissionAmount(entries, i + 1))

\* The rates used for the events of Sales users that earn a commission
NoNegativeRateApplies ==
  \A u \in 1..Len(users) : \A k \in 1..Len(eventFinancials) :
     (/\ users[u].role = "Sales"
      /\ eventFinancials[k].salespersonId = users[u].userId
      /\ JSPositive(eventFinancials[k].profit))
        => CommissionRate(eventFinancials[k], users[u]).v >= 0

(***************************************************************************)
(* C30: when no negative commission rate applies, then for every summary   *)
(* row the ledger entries of its user sum to totalCommission, the entries  *)
(* with isPaid sum to paidCommission, 0 <= paidCommission <=               *)
(* totalCommission, and pendingCommission >= 0.                            *)
(***************************************************************************)
C30_LedgerAgreesWithSummary ==
  (finPhase = "rendered" /\ NoNegativeRateApplies) =>
     \A r \in 1..Len(commissionData.summary) :
        LET row == commissionData.summary[r]
            mine == SelectSeq(commissionData.detailedLedger, LAMBDA e : e.user = row.user)
            paid == SelectSeq(mine, LAMBDA e : e.isPaid = "true")
        IN /\ FracEq(SumCommissionAmount(mine, 1), row.totalCommission)
           /\ FracEq(SumCommissionAmount(paid, 1), row.paidCommission)
           /\ row.paidCommission.n >= 0
           /\ ~FracGT(row.paidCommission, row.totalCommission)
           /\ row.pendingCommission.n >= 0

\* a Sales user with a paid and an unpaid ledger entry, while a zero-rate
\* event of a Sales user with a profit has no entry
C30_Witness ==
  /\ finPhase = "rendered"
  /\ NoNegativeRateApplies
  /\ \E r \in 1..Len(commissionData.summary) :
       LET row == commissionData.summary[r]
           mine == SelectSeq(commissionData.detailedLedger, LAMBDA e : e.user = row.user)
       IN /\ Len(mine) = 1
          /\ mine[1].isPaid = "true"
          /\ row.eventCount = 2
          /\ FracGT(row.paidCommission, Frac(0, 1))
          /\ \E k \in 1..Len(eventFinancials) :
               /\ eventFinancials[k].salespersonId = row.user.userId
               /\ JSPositive(eventFinancials[k].profit)
               /\ CommissionRate(eventFinancials[k], row.user) = Num(0)

====
